---------------------------- MODULE Spec2Model ----------------------------
(***************************************************************************)
(* Model of the BlueprintFunctionCreator plugin                             *)
(* (UDummyBlueprintFunctionLibrary): function-stub creation, batch          *)
(* creation of stubs / variables / components on one Blueprint asset, and   *)
(* the pipe-delimited return-type encoding written by ParseFModelJSON and   *)
(* read back by the pin builder of AddFunctionStubToBlueprint.              *)
(*                                                                         *)
(* Strings are TLA+ strings handled character by character.  The engine's  *)
(* FString::operator==, StartsWith, EndsWith and Contains compare without  *)
(* regard to letter case unless ESearchCase::CaseSensitive is passed (as    *)
(* the source does at DummyBlueprintFunctionLibrary.cpp:1653); FName        *)
(* equality ignores case as well; FindChar is exact.                        *)
(***************************************************************************)
EXTENDS Integers, Sequences, FiniteSets, TLC

VARIABLES
    FunctionGraphs,   \* Blueprint->FunctionGraphs: sequence of graph records
    NewVariables,     \* Blueprint->NewVariables: sequence of [VarName, Category]
    SCSNodes,         \* Blueprint->SimpleConstructionScript nodes
    Modified,         \* TRUE once MarkBlueprintAsModified has been called
    ParentClass,      \* Blueprint->ParentClass: <<>> when null, else <<[Funcs, Vars, Comps]>>
    Env,              \* what the engine answers: refusals, assets on disk
    InMemory,         \* objects FindObject can see (grows with LoadObject)
    last,             \* the last library call: operation, arguments, result
    calls,            \* number of library calls made so far
    input,            \* codec: a return-parameter record, or the fields of a wire string
    enc,              \* codec: the encoding handed to the pin builder
    dec,              \* codec: what the pin builder decoded from enc
    phase,            \* "idle"; codec: "input" -> "encoded" -> "decoded";
                      \* dump: "dump" -> "parsed" or "created"
    dump,             \* the dump file a client hands to the library
    manifest,         \* the out-parameters of ParseFModelJSON
    asset             \* what CreateBlueprintFromFModelJSON returned and did

vars == <<FunctionGraphs, NewVariables, SCSNodes, Modified, ParentClass, Env,
          InMemory, last, calls, input, enc, dec, phase, dump, manifest, asset>>

bpVars == <<FunctionGraphs, NewVariables, SCSNodes, Modified, ParentClass, Env,
            InMemory, last, calls>>

codecVars == <<input, enc, dec, phase>>

dumpVars == <<dump, manifest, asset>>

\* a local of the source: its initialiser is evaluated once, then used by In
Local(value, In(_)) == CHOOSE out \in {In(v) : v \in {value}} : TRUE

-----------------------------------------------------------------------------
(* FString / FName primitives                                              *)

\* FChar::ToLower on the letters A..Z; every other character is itself
LowerOf ==
    [A |-> "a", B |-> "b", C |-> "c", D |-> "d", E |-> "e", F |-> "f", G |-> "g",
     H |-> "h", I |-> "i", J |-> "j", K |-> "k", L |-> "l", M |-> "m", N |-> "n",
     O |-> "o", P |-> "p", Q |-> "q", R |-> "r", S |-> "s", T |-> "t", U |-> "u",
     V |-> "v", W |-> "w", X |-> "x", Y |-> "y", Z |-> "z"]

CharAt(s, i) == SubSeq(s, i, i)

ToLowerChar(c) == IF c \in DOMAIN LowerOf THEN LowerOf[c] ELSE c

RECURSIVE ToLower(_)
ToLower(s) == IF s = "" THEN "" ELSE ToLowerChar(CharAt(s, 1)) \o ToLower(Tail(s))

\* FString::operator== (case-insensitive)
StrEq(a, b) == ToLower(a) = ToLower(b)

\* FString::Left / Mid (0-based Start in the source, 1-based here)
Left(s, n) == SubSeq(s, 1, n)
Mid(s, start) == SubSeq(s, start, Len(s))

\* FString::StartsWith / EndsWith / Contains with the default ESearchCase::IgnoreCase
StartsWith(s, p) == Len(p) > 0 /\ Len(s) >= Len(p) /\ StrEq(Left(s, Len(p)), p)
EndsWith(s, p) == Len(p) > 0 /\ Len(s) >= Len(p) /\ StrEq(Mid(s, Len(s) - Len(p) + 1), p)
Contains(s, p) ==
    Len(p) > 0 /\ \E i \in 1..(Len(s) - Len(p) + 1) : StrEq(SubSeq(s, i, i + Len(p) - 1), p)

\* FString::FindChar: position of the first occurrence, 0 when absent
FindChar(s, c) ==
    IF \E i \in 1..Len(s) : CharAt(s, i) = c
    THEN CHOOSE i \in 1..Len(s) : CharAt(s, i) = c /\ \A j \in 1..(i - 1) : CharAt(s, j) # c
    ELSE 0

\* FString::LeftChop
LeftChop(s, n) == SubSeq(s, 1, Len(s) - n)

\* FString::ParseIntoArray(Out, "|") with the default InCullEmpty = true
RECURSIVE ParseIntoArray(_)
ParseIntoArray(s) ==
    IF s = "" THEN <<>>
    ELSE LET k == FindChar(s, "|") IN
         IF k = 0 THEN <<s>>
         ELSE (IF k = 1 THEN <<>> ELSE <<Left(s, k - 1)>>) \o ParseIntoArray(Mid(s, k + 1))

\* FName::operator== (case-insensitive comparison index)
\* variant: names compared character by character
FNameEq_Exact(a, b) == a = b

FNameEq(a, b) == ToLower(a) = ToLower(b)

\* FName::IsNone: the empty string and "None" both denote NAME_None
IsNone(n) == n = "" \/ StrEq(n, "None")

-----------------------------------------------------------------------------
(* Asset store: FindObject sees only what is in memory, LoadObject also     *)
(* what is on disk, and brings it into memory.  Objects are <<path, kind>>. *)

NoObject == ""
GenericObject == "UObject::StaticClass"
GenericClass == "UClass::StaticClass"

Find(path, kind) == [Op |-> "Find", Path |-> path, Kind |-> kind]
Load(path, kind) == [Op |-> "Load", Path |-> path, Kind |-> kind]
FindThenLoad(path, kind) == <<Find(path, kind), Load(path, kind)>>

LookupHits(step, mem, disk) ==
    IF step.Op = "Find" THEN <<step.Path, step.Kind>> \in mem
    ELSE <<step.Path, step.Kind>> \in (mem \cup disk)

\* Runs the lookups in order and stops at the first one that answers.
RECURSIVE RunLookups(_, _, _, _)
RunLookups(steps, mem, disk, tried) ==
    IF steps = <<>> THEN [Object |-> NoObject, Mem |-> mem, Tried |-> tried]
    ELSE LET st == Head(steps) IN
         IF LookupHits(st, mem, disk)
         THEN [Object |-> st.Path,
               Mem |-> IF st.Op = "Load" THEN mem \cup {<<st.Path, st.Kind>>} ELSE mem,
               Tried |-> Append(tried, st)]
         ELSE RunLookups(Tail(steps), mem, disk, Append(tried, st))

StripDotZero(path) == IF EndsWith(path, ".0") THEN LeftChop(path, 2) ELSE path

FullPath(ClassPath, ClassName) == StripDotZero(ClassPath) \o "." \o ClassName

IsUserDefinedName(n) == StartsWith(n, "F_") \/ Contains(n, "UserDefined")

ContentPathsToTry(n) ==
    << "/Game/Pal/DataTable/Struct/" \o n \o "." \o n,
       "/Game/Pal/Blueprint/Struct/" \o n \o "." \o n,
       "/Game/Pal/Struct/" \o n \o "." \o n,
       "/Game/Struct/" \o n \o "." \o n >>

RECURSIVE FlatMap(_, _)
FlatMap(Op(_), seq) == IF seq = <<>> THEN <<>> ELSE Op(Head(seq)) \o FlatMap(Op, Tail(seq))

ContentLookups(n) ==
    LET FL(p) == FindThenLoad(p, "Struct") IN FlatMap(FL, ContentPathsToTry(n))

\* lines 253-328: struct named by a scalar StructProperty return type
StructLookups(ClassName, ClassPath) ==
    (IF ClassPath # "" THEN FindThenLoad(FullPath(ClassPath, ClassName), "Struct") ELSE <<>>)
    \o (IF IsUserDefinedName(ClassName) THEN ContentLookups(ClassName) ELSE <<>>)
    \o << Load("/Script/CoreUObject." \o ClassName, "Struct"),
          Load("/Script/Engine." \o ClassName, "Struct"),
          Load("/Script/Pal." \o ClassName, "Struct") >>

\* lines 379-428 and 436-448: class named by a scalar Object/ClassProperty
ClassLookups(ClassName, ClassPath) ==
    (IF ClassPath # "" THEN <<Load(FullPath(ClassPath, ClassName), "Class")>> ELSE <<>>)
    \o << Load("/Script/Pal." \o ClassName, "Class"),
          Load("/Script/Engine." \o ClassName, "Class"),
          Load("/Script/Niagara." \o ClassName, "Class"),
          Load("/Script/CoreUObject." \o ClassName, "Class") >>
    \o (IF ClassPath # "" THEN <<Find(FullPath(ClassPath, ClassName), "Class")>> ELSE <<>>)

\* lines 503-537: class of an array's ObjectProperty elements
ArrayObjectLookups(ClassName, ClassPath) ==
    (IF ClassPath # "" THEN <<Load(FullPath(ClassPath, ClassName), "Class")>> ELSE <<>>)
    \o << Load("/Script/Pal." \o ClassName, "Class"),
          Load("/Script/Engine." \o ClassName, "Class"),
          Load("/Script/CoreUObject." \o ClassName, "Class") >>

\* lines 672-705: class of an array's ClassProperty elements
ArrayClassLookups(ClassName, ClassPath) ==
    (IF ClassPath # ""
     THEN <<Load(FullPath(ClassPath, ClassName), "Class"), Find(FullPath(ClassPath, ClassName), "Class")>>
     ELSE <<>>)
    \o << Load("/Script/Pal." \o ClassName, "Class"),
          Load("/Script/Engine." \o ClassName, "Class"),
          Load("/Script/CoreUObject." \o ClassName, "Class") >>

\* lines 565-608: struct of an array's StructProperty elements (no path hint)
ArrayStructLookups(ClassName) ==
    (IF IsUserDefinedName(ClassName) THEN ContentLookups(ClassName) ELSE <<>>)
    \o << Load("/Script/CoreUObject." \o ClassName, "Struct"),
          Load("/Script/Engine." \o ClassName, "Struct"),
          Load("/Script/Pal." \o ClassName, "Struct") >>

\* lines 820-823, 844-847, 979-982, 1003-1006: class of a map key or value
MapClassLookups(n) ==
    << Find("/Script/Pal." \o n, "Class"), Find("/Script/Engine." \o n, "Class") >>

\* lines 870-903, 1029-1062: struct of a map key or value
MapStructLookups(n) ==
    (IF IsUserDefinedName(n) THEN ContentLookups(n) ELSE <<>>)
    \o << Find("/Script/CoreUObject." \o n, "Struct"),
          Find("/Script/Engine." \o n, "Struct"),
          Find("/Script/Pal." \o n, "Struct") >>

\* lines 962-965: enum of a map key
MapEnumLookups(n) ==
    << Find("/Script/Pal." \o n, "Enum"), Find("/Script/Engine." \o n, "Enum") >>

-----------------------------------------------------------------------------
(* Pin builder of AddFunctionStubToBlueprint                                *)

\* variant: every encoding split as Kind|Name|Path, arrays too
DecodeFields_Flat(ReturnValueType) ==
    LET SeparatorIdx == FindChar(ReturnValueType, "|") IN
    IF SeparatorIdx = 0
    THEN [PropType |-> ReturnValueType, ClassName |-> "", ClassPath |-> "", InnerType |-> ""]
    ELSE
      LET Remainder == Mid(ReturnValueType, SeparatorIdx + 1)
          SecondIdx == FindChar(Remainder, "|")
      IN [PropType  |-> Left(ReturnValueType, SeparatorIdx - 1),
          InnerType |-> "",
          ClassName |-> IF SecondIdx = 0 THEN Remainder ELSE Left(Remainder, SecondIdx - 1),
          ClassPath |-> IF SecondIdx = 0 THEN "" ELSE Mid(Remainder, SecondIdx + 1)]

\* lines 140-192: positional split of the encoding on '|'
DecodeFields(ReturnValueType) ==
    LET SeparatorIdx == FindChar(ReturnValueType, "|") IN
    IF SeparatorIdx = 0
    THEN [PropType |-> ReturnValueType, ClassName |-> "", ClassPath |-> "", InnerType |-> ""]
    ELSE
      LET PropType  == Left(ReturnValueType, SeparatorIdx - 1)
          Remainder == Mid(ReturnValueType, SeparatorIdx + 1)
          SecondIdx == FindChar(Remainder, "|")
      IN
      IF StrEq(PropType, "ArrayProperty")
      THEN IF SecondIdx = 0
           THEN [PropType |-> PropType, ClassName |-> "", ClassPath |-> "", InnerType |-> Remainder]
           ELSE LET Rest     == Mid(Remainder, SecondIdx + 1)
                    ThirdIdx == FindChar(Rest, "|")
                IN [PropType  |-> PropType,
                    InnerType |-> Left(Remainder, SecondIdx - 1),
                    ClassName |-> IF ThirdIdx = 0 THEN Rest ELSE Left(Rest, ThirdIdx - 1),
                    ClassPath |-> IF ThirdIdx = 0 THEN "" ELSE Mid(Rest, ThirdIdx + 1)]
      ELSE [PropType  |-> PropType,
            InnerType |-> "",
            ClassName |-> IF SecondIdx = 0 THEN Remainder ELSE Left(Remainder, SecondIdx - 1),
            ClassPath |-> IF SecondIdx = 0 THEN "" ELSE Mid(Remainder, SecondIdx + 1)]

\* lines 762-767: the fields of a map encoding
DecodeMapFields(ReturnValueType) ==
    Local(ParseIntoArray(ReturnValueType), LAMBDA MapParts :
    IF Len(MapParts) >= 3
    THEN [Valid |-> TRUE,
          KeyType |-> MapParts[2],
          ValueType |-> MapParts[3],
          KeyClassName |-> IF Len(MapParts) > 3 THEN MapParts[4] ELSE "",
          ValueClassName |-> IF Len(MapParts) > 4 THEN MapParts[5] ELSE ""]
    ELSE [Valid |-> FALSE, KeyType |-> "", ValueType |-> "",
          KeyClassName |-> "", ValueClassName |-> ""])

\* FEdGraphPinType as default-constructed (line 194)
EmptyPin ==
    [Container |-> "None", Category |-> "", SubCategory |-> "", Object |-> NoObject,
     Weak |-> FALSE, KeyCategory |-> "", KeySubCategory |-> "", KeyObject |-> NoObject]

\* the kinds every position (scalar, array element, map key, map value) maps alike
BasicKinds ==
    [BoolProperty   |-> <<"PC_Boolean", "">>,
     IntProperty    |-> <<"PC_Int", "">>,
     FloatProperty  |-> <<"PC_Real", "PC_Float">>,
     DoubleProperty |-> <<"PC_Real", "PC_Double">>,
     ByteProperty   |-> <<"PC_Byte", "">>,
     StrProperty    |-> <<"PC_String", "">>,
     NameProperty   |-> <<"PC_Name", "">>,
     TextProperty   |-> <<"PC_Text", "">>,
     Int64Property  |-> <<"PC_Int64", "">>,
     EnumProperty   |-> <<"PC_Byte", "">>]

IsBasicKind(t) == \E k \in DOMAIN BasicKinds : StrEq(t, k)
BasicCategory(t) == BasicKinds[CHOOSE k \in DOMAIN BasicKinds : StrEq(t, k)]

\* kinds handled alike as a scalar and as an array element
ReferenceKinds ==
    [SoftObjectProperty              |-> <<"PC_SoftObject", FALSE>>,
     SoftClassProperty               |-> <<"PC_SoftObject", FALSE>>,
     WeakObjectProperty              |-> <<"PC_Object", TRUE>>,
     InterfaceProperty               |-> <<"PC_Interface", FALSE>>,
     DelegateProperty                |-> <<"PC_Delegate", FALSE>>,
     MulticastDelegateProperty       |-> <<"PC_MCDelegate", FALSE>>,
     MulticastInlineDelegateProperty |-> <<"PC_MCDelegate", FALSE>>]

IsReferenceKind(t) == \E k \in DOMAIN ReferenceKinds : StrEq(t, k)
ReferenceCategory(t) == ReferenceKinds[CHOOSE k \in DOMAIN ReferenceKinds : StrEq(t, k)]

Built(pin, mem, tried, diag) == [Pin |-> pin, Mem |-> mem, Tried |-> tried, Diag |-> diag]

\* lines 244-339 (scalar) and 556-619 (array element): a struct pin
StructPin(pin, ClassName, lookups, mem, disk) ==
    LET p == [pin EXCEPT !.Category = "PC_Struct"] IN
    IF ClassName = "" THEN Built(p, mem, <<>>, {})
    ELSE Local(RunLookups(lookups, mem, disk, <<>>), LAMBDA r :
         Built([p EXCEPT !.Object = r.Object], r.Mem, r.Tried,
               IF r.Object = NoObject THEN {"StructNotFound"} ELSE {}))

\* lines 362-487: a scalar object or class pin; without a class name the
\* sub-category object is left unset
ScalarClassPin(pin, PropType, ClassName, ClassPath, mem, disk) ==
    LET cat == IF StrEq(PropType, "ClassProperty") THEN "PC_Class" ELSE "PC_Object"
        p   == [pin EXCEPT !.Category = cat]
    IN
    IF ClassName = "" THEN Built(p, mem, <<>>, {})
    ELSE Local(RunLookups(ClassLookups(ClassName, ClassPath), mem, disk, <<>>), LAMBDA r :
         IF r.Object # NoObject
         THEN Built([p EXCEPT !.Object = r.Object], r.Mem, r.Tried, {})
         ELSE Built([p EXCEPT !.Object = IF cat = "PC_Object" THEN GenericObject ELSE GenericClass],
                    r.Mem, r.Tried, {"ClassNotFound"}))

\* lines 494-555, 663-722 (array element) and 814-862, 974-1021 (map value):
\* an object or class pin that falls back to the generic class in every case
GenericFallbackPin(pin, cat, ClassName, lookups, mem, disk) ==
    LET p       == [pin EXCEPT !.Category = cat]
        generic == IF cat = "PC_Object" THEN GenericObject ELSE GenericClass
    IN
    IF ClassName = "" THEN Built([p EXCEPT !.Object = generic], mem, <<>>, {})
    ELSE Local(RunLookups(lookups, mem, disk, <<>>), LAMBDA r :
         IF r.Object # NoObject
         THEN Built([p EXCEPT !.Object = r.Object], r.Mem, r.Tried, {})
         ELSE Built([p EXCEPT !.Object = generic], r.Mem, r.Tried, {"ClassNotFound"}))

WithBasic(pin, t) ==
    [pin EXCEPT !.Category = BasicCategory(t)[1], !.SubCategory = BasicCategory(t)[2]]

WithReference(pin, t) ==
    [pin EXCEPT !.Category = ReferenceCategory(t)[1], !.Weak = ReferenceCategory(t)[2]]

\* variant: an array whose element kind is not recognised gets no category
ArrayPin_NoFallback(f, mem, disk) ==
    LET pin == [EmptyPin EXCEPT !.Container = "Array"] IN
    IF StrEq(f.InnerType, "ObjectProperty")
    THEN GenericFallbackPin(pin, "PC_Object", f.ClassName,
                            ArrayObjectLookups(f.ClassName, f.ClassPath), mem, disk)
    ELSE IF StrEq(f.InnerType, "StructProperty")
    THEN StructPin(pin, f.ClassName, ArrayStructLookups(f.ClassName), mem, disk)
    ELSE IF IsBasicKind(f.InnerType)
    THEN Built(WithBasic(pin, f.InnerType), mem, <<>>, {})
    ELSE IF StrEq(f.InnerType, "ClassProperty")
    THEN GenericFallbackPin(pin, "PC_Class", f.ClassName,
                            ArrayClassLookups(f.ClassName, f.ClassPath), mem, disk)
    ELSE IF IsReferenceKind(f.InnerType)
    THEN Built(WithReference(pin, f.InnerType), mem, <<>>, {})
    ELSE Built(pin, mem, <<>>, {"UnknownArrayInnerType"})

\* lines 488-752
ArrayPin(f, mem, disk) ==
    LET pin == [EmptyPin EXCEPT !.Container = "Array"] IN
    IF StrEq(f.InnerType, "ObjectProperty")
    THEN GenericFallbackPin(pin, "PC_Object", f.ClassName,
                            ArrayObjectLookups(f.ClassName, f.ClassPath), mem, disk)
    ELSE IF StrEq(f.InnerType, "StructProperty")
    THEN StructPin(pin, f.ClassName, ArrayStructLookups(f.ClassName), mem, disk)
    ELSE IF IsBasicKind(f.InnerType)
    THEN Built(WithBasic(pin, f.InnerType), mem, <<>>, {})
    ELSE IF StrEq(f.InnerType, "ClassProperty")
    THEN GenericFallbackPin(pin, "PC_Class", f.ClassName,
                            ArrayClassLookups(f.ClassName, f.ClassPath), mem, disk)
    ELSE IF IsReferenceKind(f.InnerType)
    THEN Built(WithReference(pin, f.InnerType), mem, <<>>, {})
    ELSE Built([pin EXCEPT !.Category = "PC_Wildcard"], mem, <<>>, {"UnknownArrayInnerType"})

\* lines 771-915: the value side of a map sets PinCategory
MapSidePin(pin, ValueType, ValueClassName, mem, disk) ==
    IF IsBasicKind(ValueType)
    THEN Built(WithBasic(pin, ValueType), mem, <<>>, {})
    ELSE IF StrEq(ValueType, "ObjectProperty")
    THEN GenericFallbackPin(pin, "PC_Object", ValueClassName, MapClassLookups(ValueClassName), mem, disk)
    ELSE IF StrEq(ValueType, "ClassProperty")
    THEN GenericFallbackPin(pin, "PC_Class", ValueClassName, MapClassLookups(ValueClassName), mem, disk)
    ELSE IF StrEq(ValueType, "StructProperty")
    THEN StructPin(pin, ValueClassName, MapStructLookups(ValueClassName), mem, disk)
    ELSE Built([pin EXCEPT !.Category = "PC_Wildcard"], mem, <<>>, {"UnknownMapValueType"})

\* a map logs only the unknown value kind (line 914), no failed lookup
MapValuePin(pin, ValueType, ValueClassName, mem, disk) ==
    Local(MapSidePin(pin, ValueType, ValueClassName, mem, disk), LAMBDA b :
    Built(b.Pin, b.Mem, b.Tried, b.Diag \cap {"UnknownMapValueType"}))

\* lines 917-1074: the key side of a map sets PinValueType; computed on a
\* scratch pin and copied into the key fields
MapKeyPin(KeyType, KeyClassName, mem, disk) ==
    IF StrEq(KeyType, "EnumProperty")
    THEN LET p == WithBasic(EmptyPin, KeyType) IN
         IF KeyClassName = "" THEN Built(p, mem, <<>>, {})
         ELSE Local(RunLookups(MapEnumLookups(KeyClassName), mem, disk, <<>>), LAMBDA r :
              Built([p EXCEPT !.Object = r.Object], r.Mem, r.Tried, {}))
    ELSE Local(MapSidePin(EmptyPin, KeyType, KeyClassName, mem, disk), LAMBDA b :
         Built(b.Pin, b.Mem, b.Tried,
               IF "UnknownMapValueType" \in b.Diag THEN {"UnknownMapKeyType"} ELSE {}))

\* lines 753-1083
MapPin(ReturnValueType, mem, disk) ==
    LET pin == [EmptyPin EXCEPT !.Container = "Map"] IN
    Local(DecodeMapFields(ReturnValueType), LAMBDA m :
    IF m.Valid
    THEN Local(MapValuePin(pin, m.ValueType, m.ValueClassName, mem, disk), LAMBDA v :
         Local(MapKeyPin(m.KeyType, m.KeyClassName, v.Mem, disk), LAMBDA k :
            Built([v.Pin EXCEPT !.KeyCategory = k.Pin.Category,
                                !.KeySubCategory = k.Pin.SubCategory,
                                !.KeyObject = k.Pin.Object],
                  k.Mem, v.Tried \o k.Tried, v.Diag \cup k.Diag)))
    ELSE Built([pin EXCEPT !.Category = "PC_Wildcard"], mem, <<>>, {"InvalidMapProperty"}))

\* lines 140-1089: the return pin type for an encoding
BuildReturnPinType(ReturnValueType, mem, disk) ==
    Local(DecodeFields(ReturnValueType), LAMBDA f :
    IF f.PropType = ""
    THEN Built([EmptyPin EXCEPT !.Category = "PC_Wildcard"], mem, <<>>, {})
    ELSE IF IsBasicKind(f.PropType)
    THEN Built(WithBasic(EmptyPin, f.PropType), mem, <<>>, {})
    ELSE IF StrEq(f.PropType, "StructProperty")
    THEN StructPin(EmptyPin, f.ClassName, StructLookups(f.ClassName, f.ClassPath), mem, disk)
    ELSE IF IsReferenceKind(f.PropType)
    THEN Built(WithReference(EmptyPin, f.PropType), mem, <<>>, {})
    ELSE IF StrEq(f.PropType, "ClassProperty") \/ StrEq(f.PropType, "ObjectProperty")
    THEN ScalarClassPin(EmptyPin, f.PropType, f.ClassName, f.ClassPath, mem, disk)
    ELSE IF StrEq(f.PropType, "ArrayProperty")
    THEN ArrayPin(f, mem, disk)
    ELSE IF StrEq(f.PropType, "MapProperty")
    THEN MapPin(ReturnValueType, mem, disk)
    ELSE Built([EmptyPin EXCEPT !.Category = "PC_Wildcard"], mem, <<>>, {"UnknownReturnType"}))

-----------------------------------------------------------------------------
(* AddFunctionStubToBlueprint                                               *)

\* lines 58-64: the naming convention that suggests a return value
ReturnPrefixes == {"Get", "Is", "Can", "Has", "Should", "Calc", "Gey"}

\* variant: the prefixes matched with the letter case they are written in
NameSuggestsReturn_CaseSensitive(FuncNameStr) ==
    \E p \in ReturnPrefixes : Len(FuncNameStr) >= Len(p) /\ Left(FuncNameStr, Len(p)) = p

NameSuggestsReturn(FuncNameStr) == \E p \in ReturnPrefixes : StartsWith(FuncNameStr, p)

\* variant: the decision of lines 56-69 alone, without the override of 72-76
HasReturnValue_NoVoidOverride(FuncNameStr, bHasReturnValue, ReturnValueType) ==
    IF ~bHasReturnValue /\ ReturnValueType = ""
    THEN NameSuggestsReturn(FuncNameStr)
    ELSE bHasReturnValue

\* lines 56-76: whether a result node is built
HasReturnValue(FuncNameStr, bHasReturnValue, ReturnValueType) ==
    LET detected == IF ~bHasReturnValue /\ ReturnValueType = ""
                    THEN NameSuggestsReturn(FuncNameStr)
                    ELSE bHasReturnValue
    IN IF StrEq(ReturnValueType, "VOID") THEN FALSE ELSE detected

\* variant: any name is taken for a function name
ValidFunctionName_Any(FunctionName) == TRUE

\* lines 36-48
ValidFunctionName(FunctionName) == ~IsNone(FunctionName)

\* lines 108-120: the entry node
EntryNode(FuncNameStr) ==
    [Class |-> "K2Node_FunctionEntry", CustomGeneratedFunctionName |-> FuncNameStr,
     UserDefinedPins |-> <<>>]

\* variant: the return pin is declared as an output of the result node
ResultNode_Output(pinType) ==
    [Class |-> "K2Node_FunctionResult", CustomGeneratedFunctionName |-> "",
     UserDefinedPins |-> << [PinName |-> "ReturnValue", PinType |-> pinType,
                             DesiredPinDirection |-> "EGPD_Output"] >>]

\* lines 128-130, 1091-1101: the result node with its one user-defined pin
ResultNode(pinType) ==
    [Class |-> "K2Node_FunctionResult", CustomGeneratedFunctionName |-> "",
     UserDefinedPins |-> << [PinName |-> "ReturnValue", PinType |-> pinType,
                             DesiredPinDirection |-> "EGPD_Input"] >>]

\* lines 1104-1110: the execution link from the entry's then pin
ExecLink == <<"K2Node_FunctionEntry.then", "K2Node_FunctionResult.execute">>

\* lines 27-1121.  bp is [Graphs, Modified, Mem]; the answer carries the new
\* blueprint state, the result and the outcome reached.
AddFunctionStubToBlueprint(bp, env, isNull, FunctionName, bHasReturnValue, ReturnValueType) ==
    LET unchanged(outcome) ==
            [Ok |-> FALSE, Outcome |-> outcome, Graphs |-> bp.Graphs,
             Modified |-> bp.Modified, Mem |-> bp.Mem, Diag |-> {}, Tried |-> <<>>]
    IN
    IF isNull THEN unchanged("NullBlueprint")
    ELSE IF ~ValidFunctionName(FunctionName) THEN unchanged("InvalidName")
    ELSE IF FunctionName \in env.GraphCreateFails THEN unchanged("GraphCreationFailed")
    ELSE IF FunctionName \in env.SchemaFails THEN unchanged("NoSchema")
    ELSE
      Local(HasReturnValue(FunctionName, bHasReturnValue, ReturnValueType), LAMBDA hasReturn :
      Local(IF hasReturn
            THEN BuildReturnPinType(ReturnValueType, bp.Mem, env.OnDisk)
            ELSE Built(EmptyPin, bp.Mem, <<>>, {}), LAMBDA built :
        [Ok |-> TRUE, Outcome |-> "Added",
         Graphs |-> Append(bp.Graphs,
                           [Name  |-> FunctionName,
                            Nodes |-> IF hasReturn
                                      THEN <<EntryNode(FunctionName), ResultNode(built.Pin)>>
                                      ELSE <<EntryNode(FunctionName)>>,
                            Links |-> IF hasReturn THEN {ExecLink} ELSE {}]),
         Modified |-> TRUE, Mem |-> built.Mem, Diag |-> built.Diag, Tried |-> built.Tried]))

HasResultNode(graph) ==
    \E i \in 1..Len(graph.Nodes) : graph.Nodes[i].Class = "K2Node_FunctionResult"

-----------------------------------------------------------------------------
(* AddMultipleFunctionStubsToBlueprint                                      *)

\* variant: only the name None is skipped
SkippedName_NoneOnly(FuncName) == IsNone(FuncName)

\* line 1136
SkippedName(FuncName) == IsNone(FuncName) \/ Contains(FuncName, "ExecuteUbergraph")

\* lines 1145-1153
\* variant: the own function graphs are not consulted
ExistsInBlueprint_Never(graphs, FuncName) == FALSE

ExistsInBlueprint(graphs, FuncName) ==
    \E i \in 1..Len(graphs) : FNameEq(graphs[i].Name, FuncName)

\* lines 1156-1164
\* variant: the parent class is not consulted
InheritedFromParent_Never(parent, FuncName) == FALSE

InheritedFromParent(parent, FuncName) ==
    parent # <<>> /\ \E f \in parent[1].Funcs : FNameEq(f, FuncName)

\* lines 1142-1164
FunctionExists(graphs, parent, FuncName) ==
    ExistsInBlueprint(graphs, FuncName) \/ InheritedFromParent(parent, FuncName)

\* line 1169
ReturnTypeAt(ReturnTypes, i) == IF i <= Len(ReturnTypes) THEN ReturnTypes[i] ELSE ""

\* lines 1131-1177: the loop, from item i on
RECURSIVE StubLoop(_, _, _, _, _, _, _)
StubLoop(bp, env, parent, FunctionNames, ReturnTypes, i, SuccessCount) ==
    IF i > Len(FunctionNames)
    THEN [Count |-> SuccessCount, Graphs |-> bp.Graphs, Modified |-> bp.Modified, Mem |-> bp.Mem]
    ELSE
      LET FuncName == FunctionNames[i] IN
      IF SkippedName(FuncName) \/ FunctionExists(bp.Graphs, parent, FuncName)
      THEN StubLoop(bp, env, parent, FunctionNames, ReturnTypes, i + 1, SuccessCount)
      ELSE
        LET ReturnType == ReturnTypeAt(ReturnTypes, i) IN
        Local(AddFunctionStubToBlueprint(bp, env, FALSE, FuncName, ReturnType # "", ReturnType),
              LAMBDA r :
                  StubLoop([Graphs |-> r.Graphs, Modified |-> r.Modified, Mem |-> r.Mem],
                           env, parent, FunctionNames, ReturnTypes, i + 1,
                           IF r.Ok THEN SuccessCount + 1 ELSE SuccessCount))

\* variant: a name is looked up among the graphs the asset had when the
\* call began, not among those the call has added since
RECURSIVE StubLoop_Snapshot(_, _, _, _, _, _, _, _)
StubLoop_Snapshot(known, bp, env, parent, FunctionNames, ReturnTypes, i, SuccessCount) ==
    IF i > Len(FunctionNames)
    THEN [Count |-> SuccessCount, Graphs |-> bp.Graphs, Modified |-> bp.Modified, Mem |-> bp.Mem]
    ELSE
      LET FuncName == FunctionNames[i] IN
      IF SkippedName(FuncName) \/ FunctionExists(known, parent, FuncName)
      THEN StubLoop_Snapshot(known, bp, env, parent, FunctionNames, ReturnTypes, i + 1,
                             SuccessCount)
      ELSE
        LET ReturnType == ReturnTypeAt(ReturnTypes, i) IN
        Local(AddFunctionStubToBlueprint(bp, env, FALSE, FuncName, ReturnType # "", ReturnType),
              LAMBDA r :
                  StubLoop_Snapshot(known,
                                    [Graphs |-> r.Graphs, Modified |-> r.Modified, Mem |-> r.Mem],
                                    env, parent, FunctionNames, ReturnTypes, i + 1,
                                    IF r.Ok THEN SuccessCount + 1 ELSE SuccessCount))

AddMultipleFunctionStubsToBlueprint_Snapshot(bp, env, parent, isNull, FunctionNames, ReturnTypes) ==
    IF isNull
    THEN [Count |-> 0, Graphs |-> bp.Graphs, Modified |-> bp.Modified, Mem |-> bp.Mem]
    ELSE StubLoop_Snapshot(bp.Graphs, bp, env, parent, FunctionNames, ReturnTypes, 1, 0)

\* lines 1123-1180
AddMultipleFunctionStubsToBlueprint(bp, env, parent, isNull, FunctionNames, ReturnTypes) ==
    IF isNull
    THEN [Count |-> 0, Graphs |-> bp.Graphs, Modified |-> bp.Modified, Mem |-> bp.Mem]
    ELSE StubLoop(bp, env, parent, FunctionNames, ReturnTypes, 1, 0)

-----------------------------------------------------------------------------
(* AddVariablesToBlueprint                                                  *)

\* lines 1265-1303: the scalar type names a variable may have
VariableKinds ==
    [bool    |-> <<"PC_Boolean", "">>,
     int32   |-> <<"PC_Int", "">>,
     float   |-> <<"PC_Real", "PC_Float">>,
     double  |-> <<"PC_Real", "PC_Double">>,
     uint8   |-> <<"PC_Byte", "">>,
     FString |-> <<"PC_String", "">>,
     FName   |-> <<"PC_Name", "">>,
     FText   |-> <<"PC_Text", "">>]

KnownVariableType(VarType) == \E k \in DOMAIN VariableKinds : StrEq(VarType, k)
VariableCategory(VarType) == VariableKinds[CHOOSE k \in DOMAIN VariableKinds : StrEq(VarType, k)]

\* line 1308, FBlueprintEditorUtils::AddMemberVariable: the engine refuses
\* NAME_None and any name already in the class variable list (the
\* blueprint's own variables and those of its parent class)
VariableNameTaken(variables, parent, VarName) ==
    \/ \E i \in 1..Len(variables) : FNameEq(variables[i].VarName, VarName)
    \/ parent # <<>> /\ \E v \in parent[1].Vars : FNameEq(v, VarName)

AddMemberVariable(variables, parent, env, VarName) ==
    ~IsNone(VarName) /\ ~VariableNameTaken(variables, parent, VarName)
        /\ VarName \notin env.VariableRefused

\* variant: every attempted variable is counted
CountVariable_Attempts(SuccessCount, added) == SuccessCount + 1

\* lines 1308-1316: one item's effect on the count
CountVariable(SuccessCount, added) == IF added THEN SuccessCount + 1 ELSE SuccessCount

\* variant: a variable of unknown type ends the loop
RECURSIVE VariableLoop_Abort(_, _, _, _, _, _, _)
VariableLoop_Abort(variables, parent, env, VariableNames, VariableTypes, i, SuccessCount) ==
    IF i > Len(VariableNames) \/ ~KnownVariableType(VariableTypes[i])
    THEN [Count |-> SuccessCount, Variables |-> variables]
    ELSE
      LET added == AddMemberVariable(variables, parent, env, VariableNames[i])
          next  == IF added
                   THEN Append(variables, [VarName |-> VariableNames[i],
                                           Category |-> VariableCategory(VariableTypes[i])])
                   ELSE variables
      IN VariableLoop_Abort(next, parent, env, VariableNames, VariableTypes, i + 1,
                            CountVariable(SuccessCount, added))

\* lines 1255-1317: the loop, from item i on
RECURSIVE VariableLoop(_, _, _, _, _, _, _)
VariableLoop(variables, parent, env, VariableNames, VariableTypes, i, SuccessCount) ==
    IF i > Len(VariableNames)
    THEN [Count |-> SuccessCount, Variables |-> variables]
    ELSE
      LET VarName == VariableNames[i]
          VarType == VariableTypes[i]
      IN
      IF ~KnownVariableType(VarType)
      THEN VariableLoop(variables, parent, env, VariableNames, VariableTypes, i + 1, SuccessCount)
      ELSE
        LET added == AddMemberVariable(variables, parent, env, VarName)
            next  == IF added
                     THEN Append(variables, [VarName |-> VarName,
                                             Category |-> VariableCategory(VarType)])
                     ELSE variables
        IN VariableLoop(next, parent, env, VariableNames, VariableTypes, i + 1,
                        CountVariable(SuccessCount, added))

\* variant: the asset is not marked after variables were added
AddVariablesToBlueprint_NoMark(variables, modified, parent, env, isNull, VariableNames, VariableTypes) ==
    IF isNull \/ Len(VariableNames) # Len(VariableTypes)
    THEN [Count |-> 0, Variables |-> variables, Modified |-> modified]
    ELSE LET r == VariableLoop(variables, parent, env, VariableNames, VariableTypes, 1, 0)
         IN [Count |-> r.Count, Variables |-> r.Variables, Modified |-> modified]

\* lines 1244-1325
AddVariablesToBlueprint(variables, modified, parent, env, isNull, VariableNames, VariableTypes) ==
    IF isNull \/ Len(VariableNames) # Len(VariableTypes)
    THEN [Count |-> 0, Variables |-> variables, Modified |-> modified]
    ELSE LET r == VariableLoop(variables, parent, env, VariableNames, VariableTypes, 1, 0)
         IN [Count |-> r.Count, Variables |-> r.Variables,
             Modified |-> IF r.Count > 0 THEN TRUE ELSE modified]

-----------------------------------------------------------------------------
(* AddComponentsToBlueprint                                                 *)

\* lines 1205-1216: the component classes known without a lookup
BuiltInComponents == {"SceneComponent", "StaticMeshComponent", "SkeletalMeshComponent"}

\* lines 1203-1222: the class of a component, NoObject when it cannot be found
ComponentClass(CompClassName, mem, disk) ==
    IF \E b \in BuiltInComponents : StrEq(CompClassName, b)
    THEN [Object |-> CHOOSE b \in BuiltInComponents : StrEq(CompClassName, b), Mem |-> mem]
    ELSE LET r == RunLookups(<<Load("/Script/Engine." \o CompClassName, "ComponentClass")>>,
                             mem, disk, <<>>)
         IN [Object |-> r.Object, Mem |-> r.Mem]

\* variant: a component the parent class already has is left out
AttachesComponent_NotInherited(class, parent, env, CompName) ==
    /\ class # NoObject /\ CompName \notin env.NodeRefused
    /\ ~(parent # <<>> /\ \E c \in parent[1].Comps : FNameEq(c, CompName))

\* lines 1224-1233: whether item i is attached.  The parent's components
\* are not consulted.
AttachesComponent(class, parent, env, CompName) ==
    class # NoObject /\ CompName \notin env.NodeRefused

\* lines 1197-1234: the loop, from item i on
RECURSIVE ComponentLoop(_, _, _, _, _, _, _, _)
ComponentLoop(nodes, mem, parent, env, ComponentNames, ComponentClasses, i, SuccessCount) ==
    IF i > Len(ComponentNames)
    THEN [Count |-> SuccessCount, Nodes |-> nodes, Mem |-> mem]
    ELSE
      LET CompName == ComponentNames[i]
          c == ComponentClass(ComponentClasses[i], mem, env.OnDisk)
      IN
      IF AttachesComponent(c.Object, parent, env, CompName)
      THEN ComponentLoop(Append(nodes, [Requested |-> CompName, Class |-> c.Object]),
                         c.Mem, parent, env, ComponentNames, ComponentClasses, i + 1,
                         SuccessCount + 1)
      ELSE ComponentLoop(nodes, c.Mem, parent, env, ComponentNames, ComponentClasses, i + 1,
                         SuccessCount)

\* lines 1182-1242
AddComponentsToBlueprint(nodes, modified, mem, parent, env, isNull, ComponentNames, ComponentClasses) ==
    IF isNull \/ Len(ComponentNames) # Len(ComponentClasses) \/ ~env.HasSCS
    THEN [Count |-> 0, Nodes |-> nodes, Modified |-> modified, Mem |-> mem]
    ELSE LET r == ComponentLoop(nodes, mem, parent, env, ComponentNames, ComponentClasses, 1, 0)
         IN [Count |-> r.Count, Nodes |-> r.Nodes, Mem |-> r.Mem,
             Modified |-> IF r.Count > 0 THEN TRUE ELSE modified]

-----------------------------------------------------------------------------
(* Return-type encoding written by ParseFModelJSON                          *)
(* A JSON object is a record; an optional object field is <<>> when absent  *)
(* and <<object>> when present; an absent string field reads as "", and an  *)
(* ObjectName of "" stands for a reference that carries no ObjectName.      *)

\* FString::Find(TEXT("'"), CaseSensitive, FromEnd): last position, 0 when absent
FindLastChar(s, c) ==
    IF \E i \in 1..Len(s) : CharAt(s, i) = c
    THEN CHOOSE i \in 1..Len(s) : CharAt(s, i) = c /\ \A j \in (i + 1)..Len(s) : CharAt(s, j) # c
    ELSE 0

\* lines 1651-1659 (and the seven copies of it): Class'PalBullet' -> PalBullet
StripQuotes(ObjectName) ==
    LET first == FindChar(ObjectName, "'")
        final == FindLastChar(ObjectName, "'")
    IN IF first > 0 /\ final > first + 1
       THEN SubSeq(ObjectName, first + 1, final - 1)
       ELSE ObjectName

NoRef == [ObjectName |-> "", ObjectPath |-> ""]
RefOf(field) == IF field = <<>> THEN NoRef ELSE field[1]

NoDescriptor ==
    [Kind |-> "", Name |-> "", Path |-> "", InnerKind |-> "",
     KeyKind |-> "", ValueKind |-> "", KeyName |-> "", ValueName |-> ""]

IsObjectOrClass(t) == StrEq(t, "ObjectProperty") \/ StrEq(t, "ClassProperty")

\* lines 1796-1856 and 1858-1900: the class, struct or enum name of a map side
MapSideName(side, withEnum) ==
    IF IsObjectOrClass(side.Type) THEN StripQuotes(RefOf(side.PropertyClass).ObjectName)
    ELSE IF StrEq(side.Type, "StructProperty") THEN StripQuotes(RefOf(side.Struct).ObjectName)
    ELSE IF withEnum /\ StrEq(side.Type, "EnumProperty") THEN StripQuotes(RefOf(side.Enum).ObjectName)
    ELSE ""

\* lines 1618-1900: the type description the extractor reads off a return
\* parameter before writing it out; the path of a class is read but put to
\* use only together with a class name (lines 1646-1666, 1728-1746)
ExtractDescriptor(p) ==
    LET d == [NoDescriptor EXCEPT !.Kind = p.Type] IN
    IF IsObjectOrClass(p.Type)
    THEN LET ref == IF p.MetaClass # <<>> THEN p.MetaClass[1] ELSE RefOf(p.PropertyClass)
         IN [d EXCEPT !.Name = StripQuotes(ref.ObjectName),
                      !.Path = IF ref.ObjectName # "" THEN ref.ObjectPath ELSE ""]
    ELSE IF StrEq(p.Type, "StructProperty")
    THEN [d EXCEPT !.Name = StripQuotes(RefOf(p.Struct).ObjectName),
                   !.Path = RefOf(p.Struct).ObjectPath]
    ELSE IF StrEq(p.Type, "ArrayProperty")
    THEN IF p.Inner = <<>> THEN d
         ELSE LET in == p.Inner[1] IN
              IF IsObjectOrClass(in.Type)
              THEN [d EXCEPT !.InnerKind = in.Type,
                             !.Name = StripQuotes(RefOf(in.PropertyClass).ObjectName),
                             !.Path = IF RefOf(in.PropertyClass).ObjectName # ""
                                      THEN RefOf(in.PropertyClass).ObjectPath ELSE ""]
              ELSE IF StrEq(in.Type, "StructProperty")
              THEN [d EXCEPT !.InnerKind = in.Type,
                             !.Name = StripQuotes(RefOf(in.Struct).ObjectName)]
              ELSE [d EXCEPT !.InnerKind = in.Type]
    ELSE IF StrEq(p.Type, "MapProperty")
    THEN LET key == IF p.KeyProp = <<>> THEN [Type |-> "", Name |-> ""]
                    ELSE [Type |-> p.KeyProp[1].Type, Name |-> MapSideName(p.KeyProp[1], TRUE)]
             val == IF p.ValueProp = <<>> THEN [Type |-> "", Name |-> ""]
                    ELSE [Type |-> p.ValueProp[1].Type, Name |-> MapSideName(p.ValueProp[1], FALSE)]
         IN [d EXCEPT !.KeyKind = key.Type, !.ValueKind = val.Type,
                      !.KeyName = key.Name, !.ValueName = val.Name]
    ELSE d

\* lines 1904-1916: the wire form of a map
EncodeMap(PropType, KeyType, ValueType, KeyClassName, ValueClassName) ==
    PropType \o "|" \o KeyType \o "|" \o ValueType
        \o (IF KeyClassName # "" THEN "|" \o KeyClassName ELSE "|")
        \o (IF ValueClassName # "" THEN "|" \o ValueClassName ELSE "")

\* lines 1622-1929: ReturnTypeInfo, the string stored for the function
EncodeReturnType(p) ==
    LET WithPath(str, path) == IF path # "" THEN str \o "|" \o path ELSE str IN
    Local(ExtractDescriptor(p), LAMBDA d :
    IF IsObjectOrClass(p.Type)
    THEN IF d.Name # "" THEN WithPath(p.Type \o "|" \o d.Name, d.Path) ELSE p.Type
    ELSE IF StrEq(p.Type, "StructProperty")
    THEN IF p.Struct # <<>> THEN WithPath(p.Type \o "|" \o d.Name, d.Path) ELSE p.Type
    ELSE IF StrEq(p.Type, "ArrayProperty")
    THEN IF p.Inner = <<>> THEN p.Type
         ELSE IF IsObjectOrClass(d.InnerKind)
         THEN IF d.Name # ""
              THEN WithPath(p.Type \o "|" \o d.InnerKind \o "|" \o d.Name, d.Path)
              ELSE p.Type \o "|" \o d.InnerKind
         ELSE IF StrEq(d.InnerKind, "StructProperty")
         THEN IF RefOf(p.Inner[1].Struct).ObjectName # ""
              THEN p.Type \o "|" \o d.InnerKind \o "|" \o d.Name
              ELSE p.Type
         ELSE p.Type \o "|" \o d.InnerKind
    ELSE IF StrEq(p.Type, "MapProperty")
    THEN EncodeMap(p.Type, d.KeyKind, d.ValueKind, d.KeyName, d.ValueName)
    ELSE p.Type)

\* lines 140-192 and 762-767: the type description the pin builder reads
\* back from the wire string
DecodeDescriptor(ReturnValueType) ==
    Local(DecodeFields(ReturnValueType), LAMBDA f :
    LET d == [NoDescriptor EXCEPT !.Kind = f.PropType] IN
    IF StrEq(f.PropType, "MapProperty")
    THEN Local(DecodeMapFields(ReturnValueType), LAMBDA m :
         [d EXCEPT !.KeyKind = m.KeyType, !.ValueKind = m.ValueType,
                   !.KeyName = m.KeyClassName, !.ValueName = m.ValueClassName])
    ELSE [d EXCEPT !.InnerKind = f.InnerType, !.Name = f.ClassName, !.Path = f.ClassPath])

-----------------------------------------------------------------------------
(* ParseFModelJSON                                                          *)
(* The dump file is [Readable, ValidJson, IsArray, Entries]; an entry, a     *)
(* child or a property that is not a JSON object is [IsObject |-> FALSE].   *)

\* FString::RemoveFromStart / RemoveFromEnd (ESearchCase::IgnoreCase)
RemoveFromStart(s, p) == IF StartsWith(s, p) THEN Mid(s, Len(p) + 1) ELSE s
RemoveFromEnd(s, p) == IF EndsWith(s, p) THEN LeftChop(s, Len(p)) ELSE s

\* FString::Replace (ESearchCase::IgnoreCase): every occurrence, left to right
RECURSIVE Replace(_, _, _)
Replace(s, from, to) ==
    IF s = "" THEN ""
    ELSE IF StartsWith(s, from) THEN to \o Replace(Mid(s, Len(from) + 1), from, to)
    ELSE CharAt(s, 1) \o Replace(Tail(s), from, to)

\* variant: every name is appended, seen before or not
AddUnique_Always(list, n) == Append(list, n)

\* TArray<FName>::AddUnique and TArray<FString>::AddUnique: both element
\* types compare without regard to letter case
AddUnique(list, n) ==
    IF \E i \in 1..Len(list) : FNameEq(list[i], n) THEN list ELSE Append(list, n)

\* line 1327: the out-parameters as the caller passes them in, which is how
\* a failed call leaves them
EmptyManifest ==
    [Ok |-> FALSE, FunctionNames |-> <<>>, ComponentNames |-> <<>>,
     ComponentClasses |-> <<>>, VariableNames |-> <<>>, VariableTypes |-> <<>>,
     FunctionReturnTypes |-> <<>>, ParentClassPath |-> ""]

\* variant: a top level that is not an array is read as an empty array
TopLevelIsArray_Unchecked(file) == file.Readable /\ file.ValidJson

\* lines 1331-1352: the file loads, deserialises, and its top level is an array
TopLevelIsArray(file) == file.Readable /\ file.ValidJson /\ file.IsArray

\* lines 1355-1366, 1557: the first entry of type BlueprintGeneratedClass
RECURSIVE FindClassEntry(_)
FindClassEntry(entries) ==
    IF entries = <<>> THEN <<>>
    ELSE IF Head(entries).IsObject /\ StrEq(Head(entries).Type, "BlueprintGeneratedClass")
    THEN <<Head(entries)>>
    ELSE FindClassEntry(Tail(entries))

\* lines 1380-1398: the native superclass named by SuperStruct
SuperStructParent(EntryObj) ==
    IF EntryObj.SuperStruct # <<>> /\ StartsWith(EntryObj.SuperStruct[1].ObjectName, "Class'")
    THEN "CPP:" \o RemoveFromEnd(RemoveFromStart(EntryObj.SuperStruct[1].ObjectName, "Class'"), "'")
    ELSE ""

\* variant: SuperStruct is consulted whenever Super gave no path
ParentClassPathOf_Fallback(EntryObj) ==
    IF EntryObj.Super # <<>> /\ EntryObj.Super[1].ObjectPath # ""
    THEN EntryObj.Super[1].ObjectPath
    ELSE SuperStructParent(EntryObj)

\* lines 1368-1399: Super when the entry has such an object, else SuperStruct
ParentClassPathOf(EntryObj) ==
    IF EntryObj.Super # <<>>
    THEN EntryObj.Super[1].ObjectPath
    ELSE SuperStructParent(EntryObj)

\* lines 1419-1427: the name in Function'Owner:Name', "" when the identifier
\* is none
FunctionNameOf(ObjectName) ==
    IF StartsWith(ObjectName, "Function'") /\ FindChar(ObjectName, ":") # 0
    THEN Replace(RemoveFromEnd(Mid(ObjectName, FindChar(ObjectName, ":") + 1), "'"), " ", "_")
    ELSE ""

\* lines 1408-1446: one entry of Children
ChildStep(names, Child) ==
    IF ~Child.IsObject THEN names
    ELSE Local(FunctionNameOf(Child.ObjectName), LAMBDA FuncName :
         IF FuncName # "" /\ ~StrEq(FuncName, "None") /\ ~IsNone(FuncName)
         THEN AddUnique(names, FuncName)
         ELSE names)

RECURSIVE ChildrenLoop(_, _)
ChildrenLoop(names, Children) ==
    IF Children = <<>> THEN names
    ELSE ChildrenLoop(ChildStep(names, Head(Children)), Tail(Children))

\* lines 1527-1542: the variable type written for a property type
ScalarVarTypes ==
    [BoolProperty |-> "bool", IntProperty |-> "int32", FloatProperty |-> "float",
     DoubleProperty |-> "double", ByteProperty |-> "uint8", StrProperty |-> "FString",
     NameProperty |-> "FName", TextProperty |-> "FText"]

IsScalarProperty(PropType) == \E k \in DOMAIN ScalarVarTypes : StrEq(PropType, k)
VarTypeOf(PropType) == ScalarVarTypes[CHOOSE k \in DOMAIN ScalarVarTypes : StrEq(PropType, k)]

\* variant: no name prefix marks a helper property
IsHelperName_None(PropName) == FALSE

\* lines 1520-1522: properties the compiler generated inside functions
IsHelperName(PropName) ==
    \/ StartsWith(PropName, "CallFunc_")
    \/ StartsWith(PropName, "K2Node_")
    \/ StartsWith(PropName, "Temp_")

\* lines 1463-1551: how one declared property is classified
ClassifyProperty(Prop) ==
    IF ~Prop.IsObject THEN "ignored"
    ELSE IF StrEq(Prop.Name, "UberGraphFrame") THEN "ignored"
    ELSE IF StrEq(Prop.Type, "ObjectProperty")
    THEN IF /\ Prop.PropertyClass # <<>>
            /\ Contains(Prop.PropertyClass[1].ObjectName, "Component")
            /\ Prop.Name # ""
         THEN "component" ELSE "ignored"
    ELSE IF IsScalarProperty(Prop.Type) /\ Prop.Name # "" /\ ~IsHelperName(Prop.Name)
    THEN "variable"
    ELSE "ignored"

\* lines 1488-1497 and 1544-1548: what a classified property adds
PropertyStep(m, Prop) ==
    Local(ClassifyProperty(Prop), LAMBDA class :
    IF class = "component"
    THEN [m EXCEPT !.ComponentNames = AddUnique(@, Prop.Name),
                   !.ComponentClasses =
                       AddUnique(@, RemoveFromEnd(RemoveFromStart(
                                        Prop.PropertyClass[1].ObjectName, "Class'"), "'"))]
    ELSE IF class = "variable"
    THEN [m EXCEPT !.VariableNames = AddUnique(@, Prop.Name),
                   !.VariableTypes = Append(@, VarTypeOf(Prop.Type))]
    ELSE m)

RECURSIVE PropertiesLoop(_, _)
PropertiesLoop(m, ChildProperties) ==
    IF ChildProperties = <<>> THEN m
    ELSE PropertiesLoop(PropertyStep(m, Head(ChildProperties)), Tail(ChildProperties))

\* lines 1366-1551: everything read from the class-definition entry
ExtractClass(EntryObj) ==
    PropertiesLoop([EmptyManifest EXCEPT
                       !.ParentClassPath = ParentClassPathOf(EntryObj),
                       !.FunctionNames = ChildrenLoop(<<>>, EntryObj.Children)],
                   EntryObj.ChildProperties)

\* variant: an out-parameter passed by reference counts as a return value
IsReturnParam_AnyOut(PropertyFlags) ==
    /\ Contains(PropertyFlags, "Parm")
    /\ Contains(PropertyFlags, "ReturnParm") \/ Contains(PropertyFlags, "OutParm")

\* lines 1613-1616
IsReturnParam(PropertyFlags) ==
    /\ Contains(PropertyFlags, "Parm")
    /\ \/ Contains(PropertyFlags, "ReturnParm")
       \/ Contains(PropertyFlags, "OutParm") /\ ~Contains(PropertyFlags, "ReferenceParm")

\* lines 1594-1929: the first return parameter of a function, <<>> when none
RECURSIVE FirstReturnParam(_)
FirstReturnParam(ChildProps) ==
    IF ChildProps = <<>> THEN <<>>
    ELSE IF Head(ChildProps).IsObject /\ IsReturnParam(Head(ChildProps).PropertyFlags)
    THEN <<Head(ChildProps)>>
    ELSE FirstReturnParam(Tail(ChildProps))

\* lines 1590-1936: the entry of FunctionReturnTypeMap for one function
FunctionReturnType(ChildProps) ==
    Local(FirstReturnParam(ChildProps), LAMBDA found :
    IF found = <<>> THEN "VOID" ELSE EncodeReturnType(found[1]))

\* variant: a key already present keeps its value
MapAdd_KeepFirst(map, key, value) ==
    IF \E i \in 1..Len(map) : StrEq(map[i].Key, key)
    THEN map
    ELSE Append(map, [Key |-> key, Value |-> value])

\* TMap<FString, FString>::Add: keys compare without regard to letter case,
\* a key already present gets the new value
MapAdd(map, key, value) ==
    IF \E i \in 1..Len(map) : StrEq(map[i].Key, key)
    THEN [i \in 1..Len(map) |->
             IF StrEq(map[i].Key, key) THEN [Key |-> key, Value |-> value] ELSE map[i]]
    ELSE Append(map, [Key |-> key, Value |-> value])

\* TMap::Find: <<>> when the key is absent
MapFind(map, key) ==
    IF \E i \in 1..Len(map) : StrEq(map[i].Key, key)
    THEN <<map[CHOOSE i \in 1..Len(map) : StrEq(map[i].Key, key)].Value>>
    ELSE <<>>

\* lines 1563-1946: FunctionReturnTypeMap, built from the Function entries
RECURSIVE ReturnTypeMap(_, _)
ReturnTypeMap(map, entries) ==
    IF entries = <<>> THEN map
    ELSE LET e == Head(entries) IN
         IF e.IsObject /\ StrEq(e.Type, "Function") /\ e.Name # ""
         THEN ReturnTypeMap(MapAdd(map, Replace(e.Name, " ", "_"),
                                   FunctionReturnType(e.ChildProperties)),
                            Tail(entries))
         ELSE ReturnTypeMap(map, Tail(entries))

\* lines 1953-1977: the return types, parallel to the function names
MergeReturnTypes(FunctionNames, map) ==
    [i \in 1..Len(FunctionNames) |->
        Local(MapFind(map, FunctionNames[i]), LAMBDA ReturnType :
        IF ReturnType = <<>> THEN "" ELSE ReturnType[1])]

\* variant: a dump without class definition is refused
ParseSucceeds_NeedsClass(found) == found # <<>>

\* lines 1979-1981: a dump of the right shape is accepted, class definition
\* or not
ParseSucceeds(found) == TRUE

\* lines 1327-1982
ParseFModelJSON(file) ==
    IF ~TopLevelIsArray(file) THEN EmptyManifest
    ELSE
      Local(FindClassEntry(file.Entries), LAMBDA found :
      Local(IF found = <<>> THEN EmptyManifest ELSE ExtractClass(found[1]), LAMBDA m :
      Local(ReturnTypeMap(<<>>, file.Entries), LAMBDA map :
        [m EXCEPT !.Ok = ParseSucceeds(found),
                  !.FunctionReturnTypes = MergeReturnTypes(m.FunctionNames, map)])))

-----------------------------------------------------------------------------
(* CreateBlueprintFromFModelJSON                                            *)
(* Besides the refusals of the stub operations, env says which native       *)
(* classes exist (NativeClasses), what the parent blueprints on disk look   *)
(* like (Blueprints: asset path -> [Class, Stale, CompileFails]) and        *)
(* whether the asset tools create the asset (CreateAssetFails).             *)

\* line 2002: AActor::StaticClass()
ActorClass == [Name |-> "Actor", Funcs |-> {"GetDistanceTo"}, Vars |-> {}, Comps |-> {}]

Digits == {"0", "1", "2", "3", "4", "5", "6", "7", "8", "9"}

\* FString::IsNumeric: not empty, an optional sign, then digits (a dot
\* cannot occur behind the last dot)
IsNumeric(s) ==
    /\ s # ""
    /\ \A i \in 1..Len(s) : CharAt(s, i) \in Digits \/ (i = 1 /\ CharAt(s, i) \in {"-", "+"})

\* lines 2030-2049: /Game/X/BP_Base.0 -> /Game/X/BP_Base.BP_Base
ParentAssetPath(ParentClassPath) ==
    LET DotIndex == FindLastChar(ParentClassPath, ".")
        AssetPath == IF DotIndex # 0 /\ IsNumeric(Mid(ParentClassPath, DotIndex + 1))
                     THEN Left(ParentClassPath, DotIndex - 1)
                     ELSE ParentClassPath
        SlashIndex == FindLastChar(AssetPath, "/")
    IN IF SlashIndex # 0 THEN AssetPath \o "." \o Mid(AssetPath, SlashIndex + 1) ELSE AssetPath

\* lines 2054-2062: the load of the parent blueprint and its second attempt
ParentLookups(AssetPath) ==
    <<Load(AssetPath, "Blueprint")>>
    \o (IF StartsWith(AssetPath, "/Game/Pal/")
        THEN <<Load(Replace(AssetPath, "/Game/Pal/", "/Game/Pal/Content/Pal/"), "Blueprint")>>
        ELSE <<>>)

\* lines 2007-2023: a parent tagged CPP: is looked up among the native classes
NativeParent(ParentClassPath, env, mem) ==
    LET ClassName == Mid(ParentClassPath, 5) IN
    [Class |-> IF \E c \in env.NativeClasses : FNameEq(c.Name, ClassName)
               THEN CHOOSE c \in env.NativeClasses : FNameEq(c.Name, ClassName)
               ELSE ActorClass,
     Mem |-> mem, Tried |-> <<Find(ClassName, "Class")>>, Log |-> <<>>]

\* lines 2024-2086: any other parent is loaded as a blueprint asset
BlueprintParent(ParentClassPath, env, mem) ==
    Local(RunLookups(ParentLookups(ParentAssetPath(ParentClassPath)), mem, env.OnDisk, <<>>),
          LAMBDA r :
    IF r.Object = NoObject
    THEN [Class |-> ActorClass, Mem |-> r.Mem, Tried |-> r.Tried, Log |-> <<>>]
    ELSE LET ParentBlueprint == env.Blueprints[r.Object] IN
         [Class |-> IF ParentBlueprint.Stale /\ ParentBlueprint.CompileFails
                    THEN ActorClass ELSE ParentBlueprint.Class,
          Mem |-> r.Mem, Tried |-> r.Tried,
          Log |-> IF ParentBlueprint.Stale THEN <<"CompileParent">> ELSE <<>>])

\* lines 2001-2088
ResolveParentClass(ParentClassPath, env, mem) ==
    IF ParentClassPath = ""
    THEN [Class |-> ActorClass, Mem |-> mem, Tried |-> <<>>, Log |-> <<>>]
    ELSE IF StartsWith(ParentClassPath, "CPP:")
    THEN NativeParent(ParentClassPath, env, mem)
    ELSE BlueprintParent(ParentClassPath, env, mem)

\* lines 2089-2100: the function graphs of a blueprint fresh from the
\* factory; an actor blueprint comes with its construction script
NewBlueprintGraphs ==
    << [Name |-> "UserConstructionScript",
        Nodes |-> <<EntryNode("UserConstructionScript")>>, Links |-> {}] >>

\* what the caller of CreateBlueprintFromFModelJSON holds when no asset is
\* returned
NoAsset ==
    [Returned |-> FALSE, Parent |-> <<>>, Graphs |-> <<>>, Variables |-> <<>>,
     Nodes |-> <<>>, Modified |-> FALSE, Counts |-> <<>>, Log |-> <<>>, Tried |-> <<>>]

\* lines 1984-2136.  Log lists the engine operations on assets in the
\* order they are made.
CreateBlueprintFromFModelJSON(file, env, mem) ==
    Local(ParseFModelJSON(file), LAMBDA m :
    IF ~m.Ok THEN [Asset |-> NoAsset, Manifest |-> m, Mem |-> mem]
    ELSE
      Local(ResolveParentClass(m.ParentClassPath, env, mem), LAMBDA parent :
      IF env.CreateAssetFails
      THEN [Asset |-> [NoAsset EXCEPT !.Log = parent.Log \o <<"CreateAsset">>,
                                      !.Tried = parent.Tried],
            Manifest |-> m, Mem |-> parent.Mem]
      ELSE
        Local(AddComponentsToBlueprint(<<>>, FALSE, parent.Mem, <<parent.Class>>, env, FALSE,
                                       m.ComponentNames, m.ComponentClasses), LAMBDA c :
        Local(AddVariablesToBlueprint(<<>>, c.Modified, <<parent.Class>>, env, FALSE,
                                      m.VariableNames, m.VariableTypes), LAMBDA v :
        Local(AddMultipleFunctionStubsToBlueprint(
                  [Graphs |-> NewBlueprintGraphs, Modified |-> v.Modified, Mem |-> c.Mem],
                  env, <<parent.Class>>, FALSE, m.FunctionNames, m.FunctionReturnTypes),
              LAMBDA f :
          [Asset |-> [Returned |-> TRUE, Parent |-> <<parent.Class>>, Graphs |-> f.Graphs,
                      Variables |-> v.Variables, Nodes |-> c.Nodes, Modified |-> f.Modified,
                      Counts |-> <<c.Count, v.Count, f.Count>>,
                      Log |-> parent.Log \o <<"CreateAsset", "AddComponents", "AddVariables",
                                              "AddFunctions", "Compile", "Save">>,
                      Tried |-> parent.Tried],
           Manifest |-> m, Mem |-> f.Mem])))))

-----------------------------------------------------------------------------
(* Bounds and input pools                                                   *)

MaxBatch == 3      \* longest list handed to a batch operation
MaxRepeats == 1    \* how often a batch call is repeated with the same lists
MaxFields == 4     \* most fields of a hand-made wire string

\* function names offered to AddFunctionStubToBlueprint
StubNames == {"GetHealth", "isDead", "SetHealth", "Fire", "Reload", "None", ""}

\* encodings offered to AddFunctionStubToBlueprint
StubTypes ==
    { "", "VOID", "IntProperty", "ObjectProperty|PalBullet",
      "MapProperty", "MapProperty|IntProperty", "MapProperty|IntProperty|StrProperty",
      "FooProperty", "ArrayProperty|FooProperty", "MapProperty|FooProperty|BarProperty" }

\* entries of a manifest: a function name with its return-type encoding
FunctionItems ==
    { <<"Fire", "IntProperty">>, <<"fire", "VOID">>, <<"TakeDamage", "">>,
      <<"Reload", "VOID">>, <<"GetHealth", "">>, <<"ExecuteUbergraph_BP", "IntProperty">> }

SeqsUpTo(S, n) == UNION { [1..k -> S] : k \in 0..n }

Column(items, c) == [i \in 1..Len(items) |-> items[i][c]]

\* the second list of a call: parallel to the first, or one entry short
Second(items, short) ==
    IF short THEN SubSeq(Column(items, 2), 1, Len(items) - 1) ELSE Column(items, 2)

\* a graph as AddFunctionStubToBlueprint leaves it for a function without result
PlainGraph(name) == [Name |-> name, Nodes |-> <<EntryNode(name)>>, Links |-> {}]

NoRefusals ==
    [GraphCreateFails |-> {}, SchemaFails |-> {}, VariableRefused |-> {},
     NodeRefused |-> {}, HasSCS |-> TRUE, NullBlueprint |-> FALSE,
     OnDisk |-> { <<"/Script/Pal.PalBullet", "Class">>,
                  <<"/Game/X/Bullet.PalBullet", "Class">>,
                  <<"/Script/Engine.AudioComponent", "ComponentClass">> }]

BaseParent == [Funcs |-> {"TakeDamage"}, Vars |-> {"Health"}, Comps |-> {"Mesh"}]

\* the assets and engine answers a run starts from; in the last one the
\* client holds no blueprint and passes a null pointer
Scenarios ==
    { [Graphs |-> <<>>, Variables |-> <<>>, Nodes |-> <<>>, Parent |-> <<>>, Env |-> NoRefusals],
      [Graphs |-> <<PlainGraph("Fire")>>,
       Variables |-> <<[VarName |-> "Ammo", Category |-> <<"PC_Int", "">>]>>,
       Nodes |-> <<>>, Parent |-> <<BaseParent>>, Env |-> NoRefusals],
      [Graphs |-> <<PlainGraph("Fire")>>, Variables |-> <<>>, Nodes |-> <<>>,
       Parent |-> <<BaseParent>>,
       Env |-> [NoRefusals EXCEPT !.GraphCreateFails = {"Reload"}, !.VariableRefused = {"Speed"},
                                  !.NodeRefused = {"Root"}]],
      [Graphs |-> <<>>, Variables |-> <<>>, Nodes |-> <<>>, Parent |-> <<>>,
       Env |-> [NoRefusals EXCEPT !.SchemaFails = {"GetHealth"}, !.HasSCS = FALSE]],
      [Graphs |-> <<>>, Variables |-> <<>>, Nodes |-> <<>>, Parent |-> <<>>,
       Env |-> [NoRefusals EXCEPT !.NullBlueprint = TRUE]] }

NoCall ==
    [Op |-> "None", Null |-> FALSE, Names |-> <<>>, Types |-> <<>>, HasReturn |-> FALSE,
     Ok |-> FALSE, Count |-> 0, PreLen |-> 0, PreModified |-> FALSE, Outcome |-> "",
     Diag |-> {}, Tried |-> <<>>, Repeat |-> 0]

NoInput == [Prop |-> <<>>, Fields |-> <<>>]

\* no dump file in play
NoDump == [Readable |-> FALSE, ValidJson |-> FALSE, IsArray |-> FALSE, Entries |-> <<>>]

InitBlueprint ==
    /\ \E sc \in Scenarios :
          /\ FunctionGraphs = sc.Graphs
          /\ NewVariables = sc.Variables
          /\ SCSNodes = sc.Nodes
          /\ ParentClass = sc.Parent
          /\ Env = sc.Env
    /\ Modified = FALSE
    /\ InMemory = {}
    /\ last = NoCall
    /\ calls = 0

Init ==
    /\ InitBlueprint
    /\ input = NoInput /\ enc = "" /\ dec = NoDescriptor /\ phase = "idle"
    /\ dump = NoDump /\ manifest = EmptyManifest /\ asset = NoAsset

-----------------------------------------------------------------------------
(* Calls on the function graphs of the asset                                *)

bp == [Graphs |-> FunctionGraphs, Modified |-> Modified, Mem |-> InMemory]

DoStub(isNull, name, hasReturn, type) ==
    \E r \in {AddFunctionStubToBlueprint(bp, Env, isNull, name, hasReturn, type)} :
    /\ FunctionGraphs' = r.Graphs
    /\ Modified' = r.Modified
    /\ InMemory' = r.Mem
    /\ last' = [NoCall EXCEPT !.Op = "Stub", !.Null = isNull, !.Names = <<name>>,
                              !.Types = <<type>>, !.HasReturn = hasReturn, !.Ok = r.Ok,
                              !.Count = IF r.Ok THEN 1 ELSE 0,
                              !.PreLen = Len(FunctionGraphs), !.PreModified = Modified,
                              !.Outcome = r.Outcome, !.Diag = r.Diag, !.Tried = r.Tried]
    /\ calls' = calls + 1
    /\ UNCHANGED <<NewVariables, SCSNodes, ParentClass, Env>>

DoBatch(isNull, names, types, repeat) ==
    \E r \in {AddMultipleFunctionStubsToBlueprint(bp, Env, ParentClass, isNull, names, types)} :
    /\ FunctionGraphs' = r.Graphs
    /\ Modified' = r.Modified
    /\ InMemory' = r.Mem
    /\ last' = [NoCall EXCEPT !.Op = "Batch", !.Null = isNull, !.Names = names,
                              !.Types = types, !.Count = r.Count,
                              !.PreLen = Len(FunctionGraphs), !.PreModified = Modified,
                              !.Repeat = repeat]
    /\ calls' = calls + 1
    /\ UNCHANGED <<NewVariables, SCSNodes, ParentClass, Env>>

\* a client calls AddFunctionStubToBlueprint
StubCall ==
    /\ phase = "idle" /\ last.Op = "None"
    /\ \E name \in StubNames, hasReturn \in BOOLEAN, type \in StubTypes :
          DoStub(Env.NullBlueprint, name, hasReturn, type)
    /\ UNCHANGED codecVars
    /\ UNCHANGED dumpVars

\* a client calls AddMultipleFunctionStubsToBlueprint with a manifest; the
\* return-type list is parallel to the names or one entry short
BatchCall ==
    /\ phase = "idle" /\ last.Op = "None"
    /\ \E items \in SeqsUpTo(FunctionItems, MaxBatch), short \in BOOLEAN :
          /\ short => items # <<>>
          /\ DoBatch(Env.NullBlueprint, Column(items, 1), Second(items, short), 0)
    /\ UNCHANGED codecVars
    /\ UNCHANGED dumpVars

\* the client repeats its last batch call with the same lists
RepeatBatch ==
    /\ phase = "idle" /\ last.Op = "Batch" /\ last.Repeat < MaxRepeats
    /\ DoBatch(last.Null, last.Names, last.Types, last.Repeat + 1)
    /\ UNCHANGED codecVars
    /\ UNCHANGED dumpVars

Next == StubCall \/ BatchCall \/ RepeatBatch

Spec == Init /\ [][Next]_vars

-----------------------------------------------------------------------------
(* Properties of the function stubs                                         *)

\* the graphs the last call appended, and the one a single stub call built
Created == SubSeq(FunctionGraphs, last.PreLen + 1, Len(FunctionGraphs))
Before == SubSeq(FunctionGraphs, 1, last.PreLen)
NewGraph == FunctionGraphs[Len(FunctionGraphs)]
StubAdded == last.Op = "Stub" /\ last.Ok /\ Len(FunctionGraphs) = last.PreLen + 1

\* C1: a stub created with the return-type encoding VOID has no result node,
\* whatever the function name and whatever the hasReturn argument.
C1_VoidWins ==
    (last.Op = "Stub" /\ last.Ok /\ last.Types[1] = "VOID")
        => /\ Len(FunctionGraphs) = last.PreLen + 1
           /\ NewGraph.Name = last.Names[1]
           /\ ~HasResultNode(NewGraph)

C1_Witness ==
    /\ StubAdded /\ last.Types[1] = "VOID" /\ last.HasReturn
    /\ last.Names[1] = "GetHealth" /\ ~HasResultNode(NewGraph)

\* the name begins with one of the prefixes, in the letter case given
BeginsWithPrefix(name) ==
    \E p \in {"Get", "Is", "Can", "Has", "Should", "Calc", "Gey"} :
        Len(name) >= Len(p) /\ SubSeq(name, 1, Len(p)) = p

\* the name begins with one of the prefixes, letter case disregarded
BeginsWithPrefixAnyCase(name) ==
    \E p \in {"Get", "Is", "Can", "Has", "Should", "Calc", "Gey"} :
        Len(name) >= Len(p) /\ ToLower(SubSeq(name, 1, Len(p))) = ToLower(p)

NoInformation == last.Op = "Stub" /\ last.Ok /\ ~last.HasReturn /\ last.Types[1] = ""

\* C2 as stated: with hasReturn false and an empty encoding, the stub has a
\* result node exactly when the name starts with Get, Is, Can, Has, Should,
\* Calc or Gey as written.
C2_AsStated == NoInformation => (HasResultNode(NewGraph) <=> BeginsWithPrefix(last.Names[1]))

\* C2: with hasReturn false and an empty encoding, the stub has a result node
\* exactly when the name starts with one of the prefixes compared without
\* regard to letter case; SetHealth gets none and GetHealth gets one.
C2_PrefixAnyCase ==
    NoInformation =>
        /\ HasResultNode(NewGraph) <=> BeginsWithPrefixAnyCase(last.Names[1])
        /\ last.Names[1] = "SetHealth" => ~HasResultNode(NewGraph)
        /\ last.Names[1] = "GetHealth" => HasResultNode(NewGraph)

C2_Witness ==
    /\ StubAdded /\ NoInformation /\ last.Names[1] = "isDead"
    /\ HasResultNode(NewGraph) /\ ~BeginsWithPrefix("isDead")

\* C3 as stated: in a batch, the stub created for a name whose entry in
\* ReturnTypes is the empty string has no result node.
C3_EmptyMeansNoResult ==
    last.Op = "Batch" =>
        \A j \in 1..Len(Created) : \A i \in 1..Len(last.Types) :
            (last.Names[i] = Created[j].Name /\ last.Types[i] = "")
                => ~HasResultNode(Created[j])

\* C4: a batch call repeated with the same lists on the same asset returns 0
\* and leaves the list of function graphs as it was.
C4_Idempotent ==
    [][RepeatBatch => (last'.Count = 0 /\ FunctionGraphs' = FunctionGraphs)]_vars

C4_Witness ==
    /\ last.Op = "Batch" /\ last.Repeat = 1 /\ last.Count = 0
    /\ last.Names = <<"Reload", "GetHealth">>
    /\ ParentClass = <<>> /\ Env = NoRefusals
    /\ Len(FunctionGraphs) = 2
    /\ FunctionGraphs[1].Name = "Reload" /\ FunctionGraphs[2].Name = "GetHealth"

ParentFuncs == IF ParentClass = <<>> THEN {} ELSE ParentClass[1].Funcs

\* C5: a batch call builds no stub whose name equals that of a function graph
\* the asset already owns or of a function of the parent class; with own Fire
\* and inherited TakeDamage the list Fire, TakeDamage, Reload builds only
\* Reload and returns 1.
C5_DuplicateFilter ==
    last.Op = "Batch" =>
        /\ \A j \in (last.PreLen + 1)..Len(FunctionGraphs) :
              /\ \A k \in 1..(j - 1) : FunctionGraphs[k].Name # FunctionGraphs[j].Name
              /\ FunctionGraphs[j].Name \notin ParentFuncs
        /\ ( /\ Before = <<PlainGraph("Fire")>> /\ ParentFuncs = {"TakeDamage"}
             /\ Env = NoRefusals /\ last.Names = <<"Fire", "TakeDamage", "Reload">> )
           => /\ last.Count = 1
              /\ Len(Created) = 1 /\ Created[1].Name = "Reload"

C5_Witness ==
    /\ last.Op = "Batch" /\ last.Repeat = 0
    /\ Before = <<PlainGraph("Fire")>> /\ ParentFuncs = {"TakeDamage"} /\ Env = NoRefusals
    /\ last.Names = <<"Fire", "TakeDamage", "Reload">>
    /\ last.Count = 1 /\ Len(Created) = 1 /\ Created[1].Name = "Reload"

\* the names a batch call found on the asset and on its parent class
KnownNames == {Before[k].Name : k \in 1..Len(Before)} \cup ParentFuncs

SameButForCase(a, b) == a # b /\ ToLower(a) = ToLower(b)

\* the engine builds every graph it is asked for
NothingRefused == Env.GraphCreateFails = {} /\ Env.SchemaFails = {} /\ ~Env.NullBlueprint

\* C6 as stated: a name that differs only in letter case from a function of
\* the asset or of its parent is no collision, and its stub is created.
C6_AsStated ==
    (last.Op = "Batch" /\ NothingRefused) =>
        \A i \in 1..Len(last.Names) :
            ( /\ \E n \in KnownNames : SameButForCase(last.Names[i], n)
              /\ last.Names[i] \notin KnownNames )
            => \E j \in 1..Len(Created) : Created[j].Name = last.Names[i]

\* C6: the collision test compares the name only and disregards letter case:
\* a name that matches a function of the asset or of its parent up to letter
\* case gets no stub, whatever its return type.
C6_CaseInsensitiveNameOnly ==
    last.Op = "Batch" =>
        \A i \in 1..Len(last.Names) :
            (\E n \in KnownNames : ToLower(last.Names[i]) = ToLower(n))
            => \A j \in 1..Len(Created) : Created[j].Name # last.Names[i]

C6_Witness ==
    /\ last.Op = "Batch" /\ last.Repeat = 0 /\ NothingRefused
    /\ Before = <<PlainGraph("Fire")>>
    /\ last.Names = <<"fire", "Reload">> /\ last.Types = <<"VOID", "VOID">>
    /\ last.Count = 1 /\ Len(Created) = 1 /\ Created[1].Name = "Reload"

-----------------------------------------------------------------------------
(* Calls on the variables and components of the asset                       *)

\* entries of a manifest: a variable name with its type name
VariableItems ==
    { <<"Ammo", "int32">>, <<"Health", "float">>, <<"health", "FString">>,
      <<"Speed", "bool">>, <<"Armor", "FVector">>, <<"None", "int32">> }

\* entries of a manifest: a component name with its class name
ComponentItems ==
    { <<"Mesh", "StaticMeshComponent">>, <<"Root", "SceneComponent">>,
      <<"Audio", "AudioComponent">>, <<"Ghost", "GhostComponent">>,
      <<"mesh", "skeletalmeshcomponent">> }

\* a client calls AddVariablesToBlueprint
VariablesCall ==
    /\ phase = "idle" /\ last.Op = "None"
    /\ \E items \in SeqsUpTo(VariableItems, MaxBatch), short \in BOOLEAN :
          /\ short => items # <<>>
          /\ \E r \in {AddVariablesToBlueprint(NewVariables, Modified, ParentClass, Env,
                                               Env.NullBlueprint, Column(items, 1),
                                               Second(items, short))} :
                /\ NewVariables' = r.Variables
                /\ Modified' = r.Modified
                /\ last' = [NoCall EXCEPT !.Op = "Variables", !.Null = Env.NullBlueprint,
                                          !.Names = Column(items, 1),
                                          !.Types = Second(items, short),
                                          !.Count = r.Count, !.PreLen = Len(NewVariables),
                                          !.PreModified = Modified]
    /\ calls' = calls + 1
    /\ UNCHANGED <<FunctionGraphs, SCSNodes, ParentClass, Env, InMemory>>
    /\ UNCHANGED codecVars
    /\ UNCHANGED dumpVars

\* a client calls AddComponentsToBlueprint
ComponentsCall ==
    /\ phase = "idle" /\ last.Op = "None"
    /\ \E items \in SeqsUpTo(ComponentItems, MaxBatch), short \in BOOLEAN :
          /\ short => items # <<>>
          /\ \E r \in {AddComponentsToBlueprint(SCSNodes, Modified, InMemory, ParentClass, Env,
                                                Env.NullBlueprint, Column(items, 1),
                                                Second(items, short))} :
                /\ SCSNodes' = r.Nodes
                /\ Modified' = r.Modified
                /\ InMemory' = r.Mem
                /\ last' = [NoCall EXCEPT !.Op = "Components", !.Null = Env.NullBlueprint,
                                          !.Names = Column(items, 1),
                                          !.Types = Second(items, short),
                                          !.Count = r.Count, !.PreLen = Len(SCSNodes),
                                          !.PreModified = Modified]
    /\ calls' = calls + 1
    /\ UNCHANGED <<FunctionGraphs, NewVariables, ParentClass, Env>>
    /\ UNCHANGED codecVars
    /\ UNCHANGED dumpVars

NextMembers == VariablesCall \/ ComponentsCall

SpecMembers == Init /\ [][NextMembers]_vars

-----------------------------------------------------------------------------
(* Properties of the variables and components                               *)

ParentVars == IF ParentClass = <<>> THEN {} ELSE ParentClass[1].Vars
ParentComps == IF ParentClass = <<>> THEN {} ELSE ParentClass[1].Comps

VariablesRan ==
    last.Op = "Variables" /\ ~last.Null /\ Len(last.Names) = Len(last.Types)

\* entry i of the last variables call names a variable the asset declared
\* before the call or inherits
CollidesWithDeclared(i) ==
    \/ \E k \in 1..last.PreLen : NewVariables[k].VarName = last.Names[i]
    \/ last.Names[i] \in ParentVars

\* entry i of the last variables call is one the engine takes: a type the
\* operation knows, a proper name nothing has taken, no refusal
Acceptable(i) ==
    /\ ToLower(last.Types[i]) \in
          {"bool", "int32", "float", "double", "uint8", "fstring", "fname", "ftext"}
    /\ ToLower(last.Names[i]) \notin {"", "none"}
    /\ last.Names[i] \notin Env.VariableRefused
    /\ \A k \in 1..last.PreLen : ToLower(NewVariables[k].VarName) # ToLower(last.Names[i])
    /\ \A v \in ParentVars : ToLower(v) # ToLower(last.Names[i])
    /\ \A h \in 1..(i - 1) : ToLower(last.Names[h]) # ToLower(last.Names[i])

\* C7: a variables call adds no variable whose name the asset already
\* declares or inherits; such an entry is not counted, and the entries
\* after it are still processed.
C7_VariableFilter ==
    VariablesRan =>
        /\ \A j \in (last.PreLen + 1)..Len(NewVariables) :
              /\ \A k \in 1..(j - 1) : NewVariables[k].VarName # NewVariables[j].VarName
              /\ NewVariables[j].VarName \notin ParentVars
        /\ last.Count = Len(NewVariables) - last.PreLen
        /\ \A i \in 1..Len(last.Names) :
              Acceptable(i) => \E j \in (last.PreLen + 1)..Len(NewVariables) :
                                   NewVariables[j].VarName = last.Names[i]

C7_Witness ==
    /\ VariablesRan /\ last.PreLen = 1 /\ NewVariables[1].VarName = "Ammo"
    /\ last.Names = <<"Ammo", "Health", "Speed">> /\ CollidesWithDeclared(1)
    /\ CollidesWithDeclared(2) /\ Acceptable(3)
    /\ last.Count = 1 /\ Len(NewVariables) = 2 /\ NewVariables[2].VarName = "Speed"

ComponentsRan ==
    last.Op = "Components" /\ ~last.Null /\ Len(last.Names) = Len(last.Types) /\ Env.HasSCS

\* the class named by entry i of the last components call can be found
ClassResolves(i) == ComponentClass(last.Types[i], InMemory, Env.OnDisk).Object # NoObject

Attachable == {i \in 1..Len(last.Names) : ClassResolves(i) /\ last.Names[i] \notin Env.NodeRefused}

\* C8: a components call attaches every component whose class resolves, one
\* the parent class already has under the same name included, and counts it.
C8_InheritedNotFiltered ==
    ComponentsRan =>
        /\ last.Count = Cardinality(Attachable)
        /\ Len(SCSNodes) = last.PreLen + last.Count
        /\ \A i \in Attachable :
              \E j \in (last.PreLen + 1)..Len(SCSNodes) : SCSNodes[j].Requested = last.Names[i]

C8_Witness ==
    /\ ComponentsRan /\ ParentComps = {"Mesh"}
    /\ last.Names = <<"Mesh", "Audio">> /\ Attachable = {1, 2}
    /\ last.Count = 2 /\ Len(SCSNodes) = last.PreLen + 2
    /\ SCSNodes[last.PreLen + 1].Requested = "Mesh"

-----------------------------------------------------------------------------
(* The return-type encoding from the extractor to the pin builder           *)

\* references as FModel writes them
BulletClass == [ObjectName |-> "Class'PalBullet'", ObjectPath |-> "/Script/Pal"]
BulletBlueprint ==
    [ObjectName |-> "BlueprintGeneratedClass'Bullet_C'", ObjectPath |-> "/Game/X/Bullet.0"]
BareName == [ObjectName |-> "PalBullet", ObjectPath |-> ""]
PathOnly == [ObjectName |-> "", ObjectPath |-> "/Game/X/Bullet.0"]
VectorStruct == [ObjectName |-> "ScriptStruct'Vector'", ObjectPath |-> "/Script/CoreUObject"]
ElementEnum == [ObjectName |-> "Enum'EPalElement'", ObjectPath |-> ""]

\* a property object with nothing but its Type
Plain(type) ==
    [Type |-> type, MetaClass |-> <<>>, PropertyClass |-> <<>>, Struct |-> <<>>,
     Enum |-> <<>>, Inner |-> <<>>, KeyProp |-> <<>>, ValueProp |-> <<>>]

\* the property objects found under Inner, KeyProp and ValueProp
SideProps ==
    { Plain("IntProperty"), Plain("ObjectProperty"), Plain("StructProperty") }
    \cup { [Plain("ObjectProperty") EXCEPT !.PropertyClass = <<r>>] : r \in {BulletClass, PathOnly} }
    \cup { [Plain("StructProperty") EXCEPT !.Struct = <<r>>] : r \in {VectorStruct, PathOnly} }
    \cup { [Plain("EnumProperty") EXCEPT !.Enum = <<ElementEnum>>] }

\* the return parameters of the functions of a dump
ReturnProps ==
    { Plain(t) : t \in {"", "IntProperty", "BoolProperty", "StrProperty", "DelegateProperty"} }
    \cup { [Plain(t) EXCEPT !.MetaClass = m, !.PropertyClass = c] :
              t \in {"ObjectProperty", "ClassProperty"},
              m \in {<<>>, <<BulletBlueprint>>},
              c \in {<<>>, <<BulletClass>>, <<BareName>>, <<PathOnly>>} }
    \cup { [Plain("StructProperty") EXCEPT !.Struct = r] :
              r \in {<<>>, <<VectorStruct>>, <<BareName>>, <<PathOnly>>} }
    \cup { [Plain("ArrayProperty") EXCEPT !.Inner = i] :
              i \in {<<>>} \cup { <<sp>> : sp \in SideProps } }
    \cup { [Plain("MapProperty") EXCEPT !.KeyProp = k, !.ValueProp = v] :
              k \in {<<>>} \cup { <<sp>> : sp \in SideProps },
              v \in {<<>>} \cup { <<sp>> : sp \in SideProps } }

\* the fields a hand-written encoding is put together from
WireFields ==
    { "", "ArrayProperty", "ObjectProperty", "IntProperty", "MapProperty",
      "PalBullet", "/Game/X/Bullet.0" }

RECURSIVE Join(_)
Join(fields) ==
    IF fields = <<>> THEN ""
    ELSE IF Len(fields) = 1 THEN fields[1]
    ELSE fields[1] \o "|" \o Join(Tail(fields))

CodecInputs ==
    { [Prop |-> <<p>>, Fields |-> <<>>] : p \in ReturnProps }
    \cup { [Prop |-> <<>>, Fields |-> f] : f \in SeqsUpTo(WireFields, MaxFields) }

InitCodec ==
    /\ FunctionGraphs = <<>> /\ NewVariables = <<>> /\ SCSNodes = <<>>
    /\ ParentClass = <<>> /\ Env = NoRefusals
    /\ Modified = FALSE /\ InMemory = {} /\ last = NoCall /\ calls = 0
    /\ input \in CodecInputs
    /\ enc = "" /\ dec = NoDescriptor /\ phase = "input"
    /\ dump = NoDump /\ manifest = EmptyManifest /\ asset = NoAsset

\* ParseFModelJSON writes the encoding of a function's return parameter
EncodeProp ==
    /\ phase = "input" /\ input.Prop # <<>>
    /\ enc' = EncodeReturnType(input.Prop[1])
    /\ phase' = "encoded"
    /\ UNCHANGED <<input, dec>>
    /\ UNCHANGED bpVars
    /\ UNCHANGED dumpVars

\* a client writes an encoding by hand, field by field
WriteFields ==
    /\ phase = "input" /\ input.Prop = <<>>
    /\ enc' = Join(input.Fields)
    /\ phase' = "encoded"
    /\ UNCHANGED <<input, dec>>
    /\ UNCHANGED bpVars
    /\ UNCHANGED dumpVars

\* the encoding reaches the pin builder through a batch call for one function
DecodePin ==
    /\ phase = "encoded"
    /\ DoBatch(FALSE, <<"GetValue">>, <<enc>>, 0)
    /\ dec' = DecodeDescriptor(enc)
    /\ phase' = "decoded"
    /\ UNCHANGED <<input, enc>>
    /\ UNCHANGED dumpVars

NextCodec == EncodeProp \/ WriteFields \/ DecodePin

SpecCodec == InitCodec /\ [][NextCodec]_vars

-----------------------------------------------------------------------------
(* Properties of the encoding                                               *)

\* the pin type of the result node the last call built
ReturnPin == NewGraph.Nodes[2].UserDefinedPins[1].PinType

\* C9 as stated: decoding the encoding the extractor wrote for a return
\* parameter gives back the kind, inner or key and value kinds, names and
\* path the extractor read.
C9_RoundTrip ==
    (phase = "decoded" /\ input.Prop # <<>>) => dec = ExtractDescriptor(input.Prop[1])

\* field i of a hand-written encoding, empty when the encoding is shorter
Field(i) == IF i <= Len(input.Fields) THEN input.Fields[i] ELSE ""

IsArrayKind(t) == ToLower(t) = "arrayproperty"
IsMapKind(t) == ToLower(t) = "mapproperty"

PositionalForm ==
    /\ phase = "decoded" /\ input.Prop = <<>> /\ input.Fields # <<>>
    /\ ~IsMapKind(Field(1))
    /\ Len(input.Fields) <= (IF IsArrayKind(Field(1)) THEN 4 ELSE 3)

BulletArray == <<"ArrayProperty", "ObjectProperty", "PalBullet", "/Game/X/Bullet.0">>

\* C10: of Kind|Name|Path the decoder takes field 1 as the name and field 2
\* as the path; of Array|InnerKind|InnerName|InnerPath it makes an array
\* whose element kind, name and path are fields 1, 2 and 3; fields that are
\* missing at the end are empty.
C10_Positional ==
    PositionalForm =>
        /\ dec.Kind = Field(1)
        /\ ~IsArrayKind(Field(1)) =>
              dec.Name = Field(2) /\ dec.Path = Field(3) /\ dec.InnerKind = ""
        /\ IsArrayKind(Field(1)) =>
              /\ dec.InnerKind = Field(2) /\ dec.Name = Field(3) /\ dec.Path = Field(4)
              /\ last.Count = 1 /\ HasResultNode(NewGraph) /\ ReturnPin.Container = "Array"
        /\ input.Fields = BulletArray =>
              ReturnPin.Category = "PC_Object" /\ ReturnPin.Object = "/Game/X/Bullet.PalBullet"

C10_Witness ==
    /\ PositionalForm /\ input.Fields = BulletArray
    /\ dec.InnerKind = "ObjectProperty" /\ dec.Name = "PalBullet"
    /\ dec.Path = "/Game/X/Bullet.0" /\ ReturnPin.Container = "Array"


\* a return parameter that is a map whose key has no name and whose value
\* has one: what the extractor reads from it
ScalarKeyNamedValue ==
    /\ input.Prop # <<>>
    /\ ExtractDescriptor(input.Prop[1]).Kind = "MapProperty"
    /\ ExtractDescriptor(input.Prop[1]).KeyName = ""
    /\ ExtractDescriptor(input.Prop[1]).ValueName # ""

\* C11 as stated: of Map|KeyKind|ValueKind|KeyName|ValueName the decoder
\* takes field 4 as the key's name and field 5 as the value's name; for the
\* encoding the extractor writes for a map with an unnamed key and a value
\* named N, the decoder takes N as the value's name and no key name.
C11_AsStated ==
    /\ (phase = "decoded" /\ ScalarKeyNamedValue) =>
          /\ dec.ValueName = ExtractDescriptor(input.Prop[1]).ValueName
          /\ dec.KeyName = ""
    /\ (phase = "decoded" /\ input.Prop = <<>> /\ IsMapKind(Field(1))
            /\ Len(input.Fields) >= 3) =>
          dec.KeyName = Field(4) /\ (Len(input.Fields) <= 5 => dec.ValueName = Field(5))


-----------------------------------------------------------------------------
(* Properties of decoding in a stub call                                    *)

\* a stub call that passed a blueprint, a proper name, and met no refusal
\* of the engine
StubCanSucceed ==
    /\ last.Op = "Stub" /\ ~last.Null
    /\ ToLower(last.Names[1]) \notin {"", "none"}
    /\ last.Names[1] \notin (Env.GraphCreateFails \cup Env.SchemaFails)

\* the last stub call decoded this encoding into the pin of a result node
DecodedInStub(type) ==
    StubCanSucceed /\ last.HasReturn /\ last.Types[1] = type

\* C12 as stated: a map encoding of fewer than 3 fields decodes to a
\* wildcard pin that is not a map, with a diagnostic, and the stub is still
\* created; MapProperty|IntProperty|StrProperty decodes to a map with key
\* kind int, value kind string and no class on either side.
C12_AsStated ==
    /\ \A short \in {"MapProperty", "MapProperty|IntProperty"} :
          DecodedInStub(short) =>
              /\ StubAdded /\ HasResultNode(NewGraph)
              /\ ReturnPin.Category = "PC_Wildcard"
              /\ ReturnPin.Container # "Map"
              /\ last.Diag # {}
    /\ DecodedInStub("MapProperty|IntProperty|StrProperty") =>
          /\ StubAdded /\ HasResultNode(NewGraph)
          /\ ReturnPin.Container = "Map"
          /\ ReturnPin.KeyCategory = "PC_Int" /\ ReturnPin.Category = "PC_String"
          /\ ReturnPin.Object = NoObject /\ ReturnPin.KeyObject = NoObject

\* C13: whatever the return-type encoding, a stub call with a blueprint and
\* a proper name whose graph the engine creates succeeds and appends the
\* graph; a kind, an array element kind or a map key or value kind that is
\* not recognised, and the empty encoding with hasReturn set, are typed as
\* wildcard.
C13_DecodingTotal ==
    /\ StubCanSucceed =>
          /\ last.Ok /\ last.Outcome = "Added"
          /\ Len(FunctionGraphs) = last.PreLen + 1
          /\ NewGraph.Name = last.Names[1]
          /\ (last.HasReturn /\ last.Types[1] # "VOID") => HasResultNode(NewGraph)
    /\ \A type \in {"", "FooProperty"} :
          DecodedInStub(type) =>
              ReturnPin.Category = "PC_Wildcard" /\ ReturnPin.Container = "None"
    /\ DecodedInStub("ArrayProperty|FooProperty") =>
          ReturnPin.Category = "PC_Wildcard" /\ ReturnPin.Container = "Array"
    /\ DecodedInStub("MapProperty|FooProperty|BarProperty") =>
          /\ ReturnPin.Category = "PC_Wildcard" /\ ReturnPin.KeyCategory = "PC_Wildcard"
          /\ ReturnPin.Container = "Map"
    /\ \A short \in {"MapProperty", "MapProperty|IntProperty"} :
          DecodedInStub(short) => ReturnPin.Category = "PC_Wildcard"

C13_Witness ==
    /\ DecodedInStub("ArrayProperty|FooProperty") /\ StubAdded
    /\ last.Names[1] = "SetHealth" /\ HasResultNode(NewGraph)
    /\ ReturnPin.Category = "PC_Wildcard" /\ ReturnPin.Container = "Array"
    /\ "UnknownArrayInnerType" \in last.Diag


-----------------------------------------------------------------------------
(* Dumps handed to ParseFModelJSON and CreateBlueprintFromFModelJSON        *)

MaxChildren == 3     \* most entries of a Children list
MaxProperties == 2   \* most entries of the ChildProperties of a class definition
MaxParams == 3       \* most entries of the ChildProperties of a function

NotAnObject == [IsObject |-> FALSE]

Child(ObjectName) == [IsObject |-> TRUE, ObjectName |-> ObjectName]

\* the entries of a Children list
ChildPool ==
    { Child("Function'BP_Gun_C:Fire'"), Child("Function'BP_Gun_C:Get Ammo'"),
      Child("Function'BP_Gun_C:fire'"), Child("Function'BP_Gun_C:ExecuteUbergraph_BP_Gun'"),
      Child("Function'BP_Gun_C:None'"), Child("Function'BP_Gun_C:'"),
      Child("Function'Reload'"), Child("BlueprintGeneratedClass'BP_Base_C'"),
      NotAnObject }

\* a property object: its name and flags besides what Plain holds
Declared(Name, Type, PropertyClass, PropertyFlags) ==
    [Plain(Type) EXCEPT !.PropertyClass = PropertyClass]
        @@ [IsObject |-> TRUE, Name |-> Name, PropertyFlags |-> PropertyFlags]

ClassRef(ObjectName) == <<[ObjectName |-> ObjectName, ObjectPath |-> "/Script/Engine"]>>

\* the declared properties of a class definition
PropertyPool ==
    { Declared("Mesh", "ObjectProperty", ClassRef("Class'StaticMeshComponent'"), "Edit"),
      Declared("Audio", "ObjectProperty", ClassRef("Class'AudioComponent'"), "Edit"),
      Declared("Muzzle", "ObjectProperty", ClassRef("Class'StaticMeshComponent'"), "Edit"),
      Declared("Holder", "ObjectProperty", ClassRef("Class'PalCharacter'"), "Edit"),
      Declared("", "ObjectProperty", ClassRef("Class'SceneComponent'"), "Edit"),
      Declared("Target", "ObjectProperty", <<>>, "Edit"),
      Declared("Ammo", "IntProperty", <<>>, "Edit"),
      Declared("Ammo", "StrProperty", <<>>, "Edit"),
      Declared("Rate", "FloatProperty", <<>>, "Edit"),
      Declared("Temp_int_Variable", "IntProperty", <<>>, ""),
      Declared("temp_Count", "IntProperty", <<>>, "Edit"),
      Declared("CallFunc_GetAmmo_ReturnValue", "IntProperty", <<>>, ""),
      Declared("K2Node_Event_Delta", "FloatProperty", <<>>, ""),
      Declared("UberGraphFrame", "StructProperty", <<>>, "Transient"),
      Declared("Damage", "StructProperty", <<>>, "Edit"),
      Declared("", "IntProperty", <<>>, "Edit"),
      NotAnObject }

\* the parameters and locals of a function, each of a type of its own
ParamPool ==
    { Declared("Amount", "IntProperty", <<>>, "Parm"),
      Declared("Hit", "BoolProperty", <<>>, "Parm | OutParm | ReferenceParm"),
      Declared("Message", "StrProperty", <<>>, "Parm | OutParm"),
      Declared("ReturnValue", "FloatProperty", <<>>, "Parm | OutParm | ReturnParm"),
      Declared("Result", "NameProperty", <<>>, "Parm | OutParm | ReferenceParm | ReturnParm"),
      Declared("Counter", "ByteProperty", <<>>, ""),
      NotAnObject }

FunctionEntry(Name, ChildProperties) ==
    [IsObject |-> TRUE, Type |-> "Function", Name |-> Name,
     ChildProperties |-> ChildProperties]

ClassEntry(Super, SuperStruct, Children, ChildProperties) ==
    [IsObject |-> TRUE, Type |-> "BlueprintGeneratedClass", Name |-> "BP_Gun_C",
     Super |-> Super, SuperStruct |-> SuperStruct, Children |-> Children,
     ChildProperties |-> ChildProperties]

ArrayFile(Entries) ==
    [Readable |-> TRUE, ValidJson |-> TRUE, IsArray |-> TRUE, Entries |-> Entries]

\* the function definitions that accompany a class definition
StandardFunctions ==
    << FunctionEntry("Fire", <<Declared("ReturnValue", "IntProperty", <<>>,
                                        "Parm | OutParm | ReturnParm")>>),
       FunctionEntry("Get Ammo", <<Declared("Amount", "IntProperty", <<>>, "Parm")>>),
       FunctionEntry("ExecuteUbergraph_BP_Gun",
                     <<Declared("EntryPoint", "IntProperty", <<>>, "Parm")>>) >>

FireOnly == <<Child("Function'BP_Gun_C:Fire'")>>

\* the Super and SuperStruct objects of a class definition
SuperPool ==
    { <<>>, <<[ObjectPath |-> ""]>>, <<[ObjectPath |-> "/Game/Pal/Blueprint/BP_Base.0"]>> }

SuperStructPool ==
    { <<>>, <<[ObjectName |-> ""]>>, <<[ObjectName |-> "Class'PalWeaponBase'"]>>,
      <<[ObjectName |-> "Class'PalMissing'"]>>, <<[ObjectName |-> "PalWeaponBase"]>> }

\* files that are no array of records, and arrays without class definition
ShapeFiles ==
    { [NoDump EXCEPT !.Readable = FALSE],
      [NoDump EXCEPT !.Readable = TRUE],
      [NoDump EXCEPT !.Readable = TRUE, !.ValidJson = TRUE],
      ArrayFile(<<>>),
      ArrayFile(<<NotAnObject>>),
      ArrayFile(StandardFunctions),
      ArrayFile(<<[IsObject |-> TRUE, Type |-> "", Name |-> "BP_Gun"], NotAnObject>>),
      ArrayFile(<<NotAnObject, ClassEntry(<<>>, <<>>, FireOnly, <<>>)>> \o StandardFunctions) }

ParentFiles ==
    { ArrayFile(<<ClassEntry(s, ss, FireOnly, <<>>)>> \o StandardFunctions) :
          s \in SuperPool, ss \in SuperStructPool }

ChildrenFiles ==
    { ArrayFile(<<ClassEntry(<<>>, <<>>, c, <<>>)>> \o StandardFunctions) :
          c \in SeqsUpTo(ChildPool, MaxChildren) }

PropertyFiles ==
    { ArrayFile(<<ClassEntry(<<>>, <<>>, FireOnly, ps)>> \o StandardFunctions) :
          ps \in SeqsUpTo(PropertyPool, MaxProperties) }

ParamFiles ==
    { ArrayFile(<<ClassEntry(<<>>, <<>>, FireOnly, <<>>), FunctionEntry("Fire", ps)>>) :
          ps \in SeqsUpTo(ParamPool, MaxParams) }

PalWeaponBase ==
    [Name |-> "PalWeaponBase", Funcs |-> {"Reload"}, Vars |-> {"Durability"}, Comps |-> {}]

BP_Base == [Name |-> "BP_Base_C", Funcs |-> {"Fire"}, Vars |-> {}, Comps |-> {"Mesh"}]

ParentAt(path, stale, fails) ==
    [p \in {path} |-> [Class |-> BP_Base, Stale |-> stale, CompileFails |-> fails]]

\* the engine a dump is imported into: the parent blueprint at the path
\* the dump gives, up to date
ImportEnv ==
    [NoRefusals EXCEPT !.OnDisk = @ \cup {<<"/Game/Pal/Blueprint/BP_Base.BP_Base", "Blueprint">>}]
        @@ [NativeClasses |-> {PalWeaponBase}, CreateAssetFails |-> FALSE,
            Blueprints |-> ParentAt("/Game/Pal/Blueprint/BP_Base.BP_Base", FALSE, FALSE)]

\* other engines: the parent under the second path and in need of
\* compilation, a parent that does not compile, no parent at all, and asset
\* tools that fail to create the asset
ImportEnvs ==
    { ImportEnv,
      [ImportEnv EXCEPT
          !.OnDisk = NoRefusals.OnDisk
                        \cup {<<"/Game/Pal/Content/Pal/Blueprint/BP_Base.BP_Base", "Blueprint">>},
          !.Blueprints = ParentAt("/Game/Pal/Content/Pal/Blueprint/BP_Base.BP_Base", TRUE, FALSE)],
      [ImportEnv EXCEPT
          !.Blueprints = ParentAt("/Game/Pal/Blueprint/BP_Base.BP_Base", TRUE, TRUE)],
      [ImportEnv EXCEPT !.OnDisk = NoRefusals.OnDisk, !.NativeClasses = {}],
      [ImportEnv EXCEPT !.CreateAssetFails = TRUE] }

DumpInputs ==
    { [File |-> f, Env |-> e] : f \in ShapeFiles \cup ParentFiles, e \in ImportEnvs }
    \cup { [File |-> f, Env |-> ImportEnv] :
              f \in ChildrenFiles \cup PropertyFiles \cup ParamFiles }

InitDump ==
    /\ \E d \in DumpInputs : dump = d.File /\ Env = d.Env
    /\ FunctionGraphs = <<>> /\ NewVariables = <<>> /\ SCSNodes = <<>>
    /\ ParentClass = <<>> /\ Modified = FALSE /\ InMemory = {}
    /\ last = NoCall /\ calls = 0
    /\ input = NoInput /\ enc = "" /\ dec = NoDescriptor /\ phase = "dump"
    /\ manifest = EmptyManifest /\ asset = NoAsset

\* a client calls ParseFModelJSON
ParseCall ==
    /\ phase = "dump"
    /\ manifest' = ParseFModelJSON(dump)
    /\ phase' = "parsed"
    /\ calls' = calls + 1
    /\ UNCHANGED <<FunctionGraphs, NewVariables, SCSNodes, Modified, ParentClass, Env,
                   InMemory, last, input, enc, dec, dump, asset>>

\* a client calls CreateBlueprintFromFModelJSON; the blueprint it creates
\* becomes the asset of the state
CreateCall ==
    /\ phase = "dump"
    /\ \E r \in {CreateBlueprintFromFModelJSON(dump, Env, InMemory)} :
          /\ manifest' = r.Manifest
          /\ asset' = r.Asset
          /\ FunctionGraphs' = r.Asset.Graphs
          /\ NewVariables' = r.Asset.Variables
          /\ SCSNodes' = r.Asset.Nodes
          /\ ParentClass' = r.Asset.Parent
          /\ Modified' = r.Asset.Modified
          /\ InMemory' = r.Mem
    /\ phase' = "created"
    /\ calls' = calls + 1
    /\ UNCHANGED <<Env, last, input, enc, dec, dump>>

NextDump == ParseCall \/ CreateCall

SpecDump == InitDump /\ [][NextDump]_vars


-----------------------------------------------------------------------------
(* Properties of parsing a dump and of creating an asset from it            *)

Parsed == phase \in {"parsed", "created"}

IsClassRecord(e) == e.IsObject /\ e.Type = "BlueprintGeneratedClass"

HasClassRecord ==
    dump.Readable /\ dump.ValidJson /\ dump.IsArray
        /\ \E i \in 1..Len(dump.Entries) : IsClassRecord(dump.Entries[i])

\* the class-definition record of the dump: the first of its kind
ClassRecord ==
    dump.Entries[CHOOSE i \in 1..Len(dump.Entries) :
                    /\ IsClassRecord(dump.Entries[i])
                    /\ \A j \in 1..(i - 1) : ~IsClassRecord(dump.Entries[j])]

\* the parent-asset path the class record gives, "" when it gives none
SuperPath == IF ClassRecord.Super = <<>> THEN "" ELSE ClassRecord.Super[1].ObjectPath

\* the class record names a native superclass as Class'Base'
NamesNativeBase ==
    /\ ClassRecord.SuperStruct # <<>>
    /\ Len(ClassRecord.SuperStruct[1].ObjectName) >= 7
    /\ SubSeq(ClassRecord.SuperStruct[1].ObjectName, 1, 6) = "Class'"
    /\ CharAt(ClassRecord.SuperStruct[1].ObjectName,
              Len(ClassRecord.SuperStruct[1].ObjectName)) = "'"

NativeBase ==
    SubSeq(ClassRecord.SuperStruct[1].ObjectName, 7,
           Len(ClassRecord.SuperStruct[1].ObjectName) - 1)

\* a parent tagged as native is looked up as a class and never loaded as an
\* asset; the asset gets that class, or the actor class when there is none
NativeTagHonoured ==
    (phase = "created" /\ Len(manifest.ParentClassPath) >= 4
        /\ SubSeq(manifest.ParentClassPath, 1, 4) = "CPP:") =>
       /\ \A i \in 1..Len(asset.Tried) : asset.Tried[i].Op # "Load"
       /\ asset.Returned =>
             asset.Parent[1] \in {c \in Env.NativeClasses : c.Name = NativeBase} \cup {ActorClass}

\* C14 as stated: the parent is the path of Super when the class record has
\* one; whenever no such path was obtained and SuperStruct names Class'Base',
\* the parent is CPP:Base, which downstream never treats as an asset path.
C14_AsStated ==
    (Parsed /\ HasClassRecord) =>
        /\ SuperPath # "" => manifest.ParentClassPath = SuperPath
        /\ (SuperPath = "" /\ NamesNativeBase) =>
              manifest.ParentClassPath = "CPP:" \o NativeBase
        /\ NativeTagHonoured

\* C14: the parent is the path of Super whenever the class record has a
\* Super object, be the path empty; SuperStruct is consulted only when the
\* record has no Super object, and then Class'Base' gives CPP:Base, which
\* downstream never treats as an asset path; in every other case the parent
\* is empty.
C14_SuperObjectWins ==
    (Parsed /\ HasClassRecord) =>
        /\ ClassRecord.Super # <<>> => manifest.ParentClassPath = SuperPath
        /\ (ClassRecord.Super = <<>> /\ NamesNativeBase) =>
              manifest.ParentClassPath = "CPP:" \o NativeBase
        /\ (ClassRecord.Super = <<>> /\ ~NamesNativeBase) => manifest.ParentClassPath = ""
        /\ NativeTagHonoured

C14_Witness ==
    /\ phase = "created" /\ HasClassRecord
    /\ ClassRecord.Super = <<[ObjectPath |-> ""]>>
    /\ NamesNativeBase /\ NativeBase = "PalWeaponBase"
    /\ manifest.ParentClassPath = ""
    /\ asset.Returned /\ asset.Parent = <<ActorClass>>


WellFormed == dump.Readable /\ dump.ValidJson /\ dump.IsArray

\* no asset exists and nothing was done to one
NothingTouched ==
    /\ FunctionGraphs = <<>> /\ NewVariables = <<>> /\ SCSNodes = <<>>
    /\ ParentClass = <<>> /\ ~Modified

\* C15: a well-formed array without class-definition record parses with
\* success into an empty manifest with an empty parent, and creating an
\* asset from it still creates the asset, with the actor class as parent.
C15_NoClassRecord ==
    (Parsed /\ WellFormed /\ ~HasClassRecord) =>
        /\ manifest = [EmptyManifest EXCEPT !.Ok = TRUE]
        /\ manifest.FunctionNames = <<>> /\ manifest.ParentClassPath = ""
        /\ (phase = "created" /\ ~Env.CreateAssetFails) =>
              /\ asset.Returned /\ ParentClass = <<ActorClass>>
              /\ asset.Log = <<"CreateAsset", "AddComponents", "AddVariables",
                               "AddFunctions", "Compile", "Save">>
              /\ asset.Counts = <<0, 0, 0>>

C15_Witness ==
    /\ phase = "created" /\ dump = ArrayFile(StandardFunctions) /\ ~HasClassRecord
    /\ manifest.Ok /\ manifest.FunctionReturnTypes = <<>>
    /\ asset.Returned /\ ParentClass = <<ActorClass>>
    /\ FunctionGraphs = NewBlueprintGraphs

\* C16: a dump that cannot be read, is no JSON, or is no array at its top
\* level makes ParseFModelJSON fail and CreateBlueprintFromFModelJSON return
\* no asset without creating, changing, compiling or saving one; when the
\* creation of the asset fails, no asset is returned and no component,
\* variable or function step is made.
C16_StructuralFailure ==
    /\ (Parsed /\ ~WellFormed) =>
          /\ ~manifest.Ok
          /\ phase = "created" =>
                ~asset.Returned /\ asset.Log = <<>> /\ NothingTouched /\ InMemory = {}
    /\ (phase = "created" /\ WellFormed /\ Env.CreateAssetFails) =>
          /\ ~asset.Returned /\ NothingTouched
          /\ \A i \in 1..Len(asset.Log) : asset.Log[i] \in {"CompileParent", "CreateAsset"}

C16_Witness ==
    /\ phase = "created" /\ dump.Readable /\ dump.ValidJson /\ ~dump.IsArray
    /\ ~manifest.Ok /\ ~asset.Returned /\ asset.Log = <<>> /\ NothingTouched


\* the text of s behind its first colon, without a closing quote
RECURSIVE BehindColon(_)
BehindColon(s) ==
    IF s = "" THEN ""
    ELSE IF CharAt(s, 1) = ":"
    THEN (IF Len(s) > 1 /\ CharAt(s, Len(s)) = "'" THEN SubSeq(s, 2, Len(s) - 1) ELSE Tail(s))
    ELSE BehindColon(Tail(s))

\* s with an underscore for every space
Underscored(s) ==
    [i \in 1..Len(s) |-> IF CharAt(s, i) = " " THEN "_" ELSE CharAt(s, i)]

RECURSIVE Glue(_)
Glue(chars) == IF chars = <<>> THEN "" ELSE Head(chars) \o Glue(Tail(chars))

\* the function name child i of the class record stands for, "" when the
\* child is no reference of the form Function'Owner:Name'
NameOfChild(i) ==
    LET c == ClassRecord.Children[i] IN
    IF c.IsObject /\ Len(c.ObjectName) >= 9 /\ SubSeq(c.ObjectName, 1, 9) = "Function'"
    THEN Glue(Underscored(BehindColon(c.ObjectName)))
    ELSE ""

\* child i yields a name, and no child before it yields the same one;
\* names are the same as the engine compares them, letter case disregarded
FirstOfItsName(i) ==
    /\ ToLower(NameOfChild(i)) \notin {"", "none"}
    /\ \A h \in 1..(i - 1) : ToLower(NameOfChild(h)) # ToLower(NameOfChild(i))

FirstChildren == {i \in 1..Len(ClassRecord.Children) : FirstOfItsName(i)}

\* C17: the function list holds exactly the names of the children of the
\* form Function'Owner:Name', spaces replaced by underscores, in the order
\* they are first seen; no name is in it twice, a later duplicate being
\* dropped; a child of another form, or with an empty name or the name
\* None, adds nothing.
C17_FirstSeenNames ==
    (Parsed /\ HasClassRecord) =>
        /\ Len(manifest.FunctionNames) = Cardinality(FirstChildren)
        /\ \A k \in 1..Len(manifest.FunctionNames) :
              \E i \in FirstChildren :
                 /\ manifest.FunctionNames[k] = NameOfChild(i)
                 /\ Cardinality({h \in FirstChildren : h < i}) = k - 1
        /\ \A k, l \in 1..Len(manifest.FunctionNames) :
              k # l => manifest.FunctionNames[k] # manifest.FunctionNames[l]

C17_Witness ==
    /\ phase = "parsed" /\ HasClassRecord
    /\ ClassRecord.Children = << Child("Function'BP_Gun_C:Get Ammo'"),
                                 Child("Function'BP_Gun_C:Fire'"),
                                 Child("Function'BP_Gun_C:Get Ammo'") >>
    /\ manifest.FunctionNames = <<"Get_Ammo", "Fire">>

\* the name denotes the event graph
IsEventGraphName(n) ==
    \E i \in 1..Len(n) : i + 15 <= Len(n) /\ SubSeq(n, i, i + 15) = "ExecuteUbergraph"

EventGraphChildren ==
    {i \in 1..Len(ClassRecord.Children) : IsEventGraphName(NameOfChild(i))}

\* C18 as stated: no name containing ExecuteUbergraph is in the function
\* list ParseFModelJSON returns, and no function graph is created for one.
C18_AsStated ==
    (Parsed /\ HasClassRecord) =>
        /\ \A k \in 1..Len(manifest.FunctionNames) : ~IsEventGraphName(manifest.FunctionNames[k])
        /\ \A g \in 1..Len(FunctionGraphs) : ~IsEventGraphName(FunctionGraphs[g].Name)

\* C18: ParseFModelJSON lets a name containing ExecuteUbergraph through, it
\* is in the returned function list like any other name;
\* AddMultipleFunctionStubsToBlueprint skips it, so that no function graph
\* is created for one.
C18_SkippedByBatch ==
    (Parsed /\ HasClassRecord) =>
        /\ \A i \in EventGraphChildren :
              \E k \in 1..Len(manifest.FunctionNames) : manifest.FunctionNames[k] = NameOfChild(i)
        /\ \A g \in 1..Len(FunctionGraphs) : ~IsEventGraphName(FunctionGraphs[g].Name)

C18_Witness ==
    /\ phase = "created" /\ HasClassRecord /\ asset.Returned
    /\ ClassRecord.Children = << Child("Function'BP_Gun_C:ExecuteUbergraph_BP_Gun'"),
                                 Child("Function'BP_Gun_C:Get Ammo'") >>
    /\ manifest.FunctionNames = <<"ExecuteUbergraph_BP_Gun", "Get_Ammo">>
    /\ Len(FunctionGraphs) = 2 /\ FunctionGraphs[2].Name = "Get_Ammo"
    /\ asset.Counts[3] = 1


DeclaredRecords ==
    {i \in 1..Len(ClassRecord.ChildProperties) : ClassRecord.ChildProperties[i].IsObject}

DeclaredAt(i) == ClassRecord.ChildProperties[i]

Range(seq) == {seq[i] : i \in 1..Len(seq)}

ScalarTypeNames ==
    { "BoolProperty", "IntProperty", "FloatProperty", "DoubleProperty", "ByteProperty",
      "StrProperty", "NameProperty", "TextProperty" }

HelperPrefixes == {"CallFunc_", "K2Node_", "Temp_"}

\* s begins with p / has p somewhere inside, letter for letter
BeginsWith(s, p) == Len(s) >= Len(p) /\ SubSeq(s, 1, Len(p)) = p
HasInside(s, p) == \E i \in 1..Len(s) : i + Len(p) - 1 <= Len(s) /\ SubSeq(s, i, i + Len(p) - 1) = p

\* the three classes of C19, every text compared letter for letter
ComponentAsStated(p) ==
    /\ p.Type = "ObjectProperty" /\ p.Name \notin {"", "UberGraphFrame"}
    /\ p.PropertyClass # <<>> /\ HasInside(p.PropertyClass[1].ObjectName, "Component")

VariableAsStated(p) ==
    /\ p.Type \in ScalarTypeNames /\ p.Name \notin {"", "UberGraphFrame"}
    /\ \A pre \in HelperPrefixes : ~BeginsWith(p.Name, pre)

\* the three classes with every text compared without regard to letter case
ComponentAnyCase(p) ==
    /\ ToLower(p.Type) = "objectproperty" /\ ToLower(p.Name) \notin {"", "ubergraphframe"}
    /\ p.PropertyClass # <<>>
    /\ HasInside(ToLower(p.PropertyClass[1].ObjectName), "component")

VariableAnyCase(p) ==
    /\ ToLower(p.Type) \in {ToLower(t) : t \in ScalarTypeNames}
    /\ ToLower(p.Name) \notin {"", "ubergraphframe"}
    /\ \A pre \in HelperPrefixes : ~BeginsWith(ToLower(p.Name), ToLower(pre))

\* C19 as stated: a declared property is a component when it is an
\* ObjectProperty with a name whose PropertyClass name contains Component, a
\* variable when it is of a scalar type with a name that does not start with
\* CallFunc_, K2Node_ or Temp_, and ignored otherwise, UberGraphFrame
\* included; none is emitted both as a component and as a variable.
C19_AsStated ==
    (Parsed /\ HasClassRecord) =>
        /\ Range(manifest.ComponentNames) =
              {DeclaredAt(i).Name : i \in {j \in DeclaredRecords : ComponentAsStated(DeclaredAt(j))}}
        /\ Range(manifest.VariableNames) =
              {DeclaredAt(i).Name : i \in {j \in DeclaredRecords : VariableAsStated(DeclaredAt(j))}}
        /\ Range(manifest.ComponentNames) \cap Range(manifest.VariableNames) = {}

\* C19: the same three classes with the type, the token Component, the three
\* prefixes and the name UberGraphFrame all compared without regard to
\* letter case, so that a scalar property named temp_Count is ignored like
\* one named Temp_Count; none is emitted both as a component and as a
\* variable.
C19_ClassesAnyCase ==
    (Parsed /\ HasClassRecord) =>
        /\ Range(manifest.ComponentNames) =
              {DeclaredAt(i).Name : i \in {j \in DeclaredRecords : ComponentAnyCase(DeclaredAt(j))}}
        /\ Range(manifest.VariableNames) =
              {DeclaredAt(i).Name : i \in {j \in DeclaredRecords : VariableAnyCase(DeclaredAt(j))}}
        /\ Range(manifest.ComponentNames) \cap Range(manifest.VariableNames) = {}
        /\ \A i \in DeclaredRecords : ~(ComponentAnyCase(DeclaredAt(i)) /\ VariableAnyCase(DeclaredAt(i)))

C19_Witness ==
    /\ phase = "parsed" /\ HasClassRecord
    /\ Len(ClassRecord.ChildProperties) = 2
    /\ DeclaredRecords = {1, 2}
    /\ DeclaredAt(1).Name = "temp_Count" /\ DeclaredAt(1).Type = "IntProperty"
    /\ DeclaredAt(2).Name = "Mesh" /\ ComponentAnyCase(DeclaredAt(2))
    /\ manifest.VariableNames = <<>> /\ manifest.ComponentNames = <<"Mesh">>


\* the flags of a property: the pieces of PropertyFlags between " | "
RECURSIVE FlagsOf(_, _)
FlagsOf(s, piece) ==
    IF s = "" THEN (IF piece = "" THEN {} ELSE {piece})
    ELSE IF Len(s) >= 3 /\ SubSeq(s, 1, 3) = " | "
    THEN (IF piece = "" THEN {} ELSE {piece}) \cup FlagsOf(SubSeq(s, 4, Len(s)), "")
    ELSE FlagsOf(Tail(s), piece \o CharAt(s, 1))

\* a property that is a return value: flagged as return parameter, or as
\* out-parameter and not as reference parameter
Qualifies(p) ==
    /\ p.IsObject
    /\ \/ "ReturnParm" \in FlagsOf(p.PropertyFlags, "")
       \/ /\ "OutParm" \in FlagsOf(p.PropertyFlags, "")
          /\ "ReferenceParm" \notin FlagsOf(p.PropertyFlags, "")

\* the function-definition records of the dump named as entry k of the
\* function list
RecordsNamed(k) ==
    {i \in 1..Len(dump.Entries) :
        /\ dump.Entries[i].IsObject /\ dump.Entries[i].Type = "Function"
        /\ Glue(Underscored(dump.Entries[i].Name)) = manifest.FunctionNames[k]}

\* the first property of the record that qualifies, 0 when none does
ChosenParam(params) ==
    IF \E i \in 1..Len(params) : Qualifies(params[i])
    THEN CHOOSE i \in 1..Len(params) :
            Qualifies(params[i]) /\ \A h \in 1..(i - 1) : ~Qualifies(params[h])
    ELSE 0

\* C20: the return type of a function is that of the first property, in
\* list order, of its function-definition record that is flagged as return
\* parameter or as out-parameter without being flagged as reference
\* parameter, and VOID when there is none; an out-parameter by reference and
\* a plain input parameter are never chosen.  (The properties of the pools
\* are scalars, whose encoding is their type.)
C20_FirstReturnParam ==
    (Parsed /\ HasClassRecord) =>
        \A k \in 1..Len(manifest.FunctionNames) :
           \A i \in RecordsNamed(k) :
              LET params == dump.Entries[i].ChildProperties IN
              /\ ChosenParam(params) = 0 => manifest.FunctionReturnTypes[k] = "VOID"
              /\ ChosenParam(params) # 0 =>
                    manifest.FunctionReturnTypes[k] = params[ChosenParam(params)].Type
              /\ \A h \in 1..Len(params) :
                    (params[h].IsObject /\ ~Qualifies(params[h])
                        /\ \A g \in 1..Len(params) : Qualifies(params[g]) => params[g].Type # params[h].Type)
                    => manifest.FunctionReturnTypes[k] # params[h].Type

C20_Witness ==
    /\ phase = "parsed" /\ HasClassRecord
    /\ manifest.FunctionNames = <<"Fire">> /\ RecordsNamed(1) = {2}
    /\ Len(dump.Entries[2].ChildProperties) = 3
    /\ \A h \in 1..3 : dump.Entries[2].ChildProperties[h].IsObject
    /\ dump.Entries[2].ChildProperties[1].PropertyFlags = "Parm | OutParm | ReferenceParm"
    /\ dump.Entries[2].ChildProperties[2].PropertyFlags = "Parm | OutParm"
    /\ dump.Entries[2].ChildProperties[3].PropertyFlags = "Parm | OutParm | ReturnParm"
    /\ ChosenParam(dump.Entries[2].ChildProperties) = 2
    /\ manifest.FunctionReturnTypes = <<"StrProperty">>


-----------------------------------------------------------------------------
(* Dumps with several function definitions, and the merge of their return  *)
(* types into the function list                                             *)

MaxRecords == 2      \* most function-definition records besides the class definition

\* the functions the class definition lists: two of them differ by a space
\* and an underscore only, and Reload is one more function
MergeChildren ==
    << Child("Function'BP_Gun_C:Fire'"), Child("Function'BP_Gun_C:Get Ammo'"),
       Child("Function'BP_Gun_C:Get_Ammo'"), Child("Function'BP_Gun_C:Reload'") >>

\* the records that may follow the class definition
RecordPool ==
    { FunctionEntry("Fire", <<Declared("ReturnValue", "FloatProperty", <<>>,
                                       "Parm | OutParm | ReturnParm")>>),
      FunctionEntry("Get Ammo", <<Declared("Amount", "IntProperty", <<>>, "Parm")>>),
      FunctionEntry("Get_Ammo", <<Declared("Amount", "IntProperty", <<>>, "Parm"),
                                  Declared("Left", "ByteProperty", <<>>, "Parm | OutParm")>>),
      FunctionEntry("Reload", <<>>),
      FunctionEntry("", <<Declared("ReturnValue", "BoolProperty", <<>>,
                                   "Parm | OutParm | ReturnParm")>>),
      [IsObject |-> TRUE, Type |-> "Class", Name |-> "Reload"],
      NotAnObject }

MergeFiles ==
    { ArrayFile(<<ClassEntry(<<>>, <<>>, MergeChildren, <<>>)>> \o rs) :
          rs \in SeqsUpTo(RecordPool, MaxRecords) }

InitMerge ==
    /\ \E f \in MergeFiles : dump = f
    /\ Env = ImportEnv
    /\ FunctionGraphs = <<>> /\ NewVariables = <<>> /\ SCSNodes = <<>>
    /\ ParentClass = <<>> /\ Modified = FALSE /\ InMemory = {}
    /\ last = NoCall /\ calls = 0
    /\ input = NoInput /\ enc = "" /\ dec = NoDescriptor /\ phase = "dump"
    /\ manifest = EmptyManifest /\ asset = NoAsset

SpecMerge == InitMerge /\ [][NextDump]_vars

-----------------------------------------------------------------------------
(* Properties of the return-type merge                                      *)

\* the return type a function-definition record gives
TypeGivenBy(i) ==
    LET params == dump.Entries[i].ChildProperties IN
    IF ChosenParam(params) = 0 THEN "VOID" ELSE params[ChosenParam(params)].Type

Last(S) == CHOOSE i \in S : \A j \in S : j <= i

\* C21 as stated: the return-type list is parallel to the function list;
\* entry k is VOID exactly when a function-definition record of that name
\* exists and has no qualifying return parameter, empty exactly when no
\* record of that name exists, and the type of the parameter otherwise.
C21_AsStated ==
    Parsed =>
        /\ Len(manifest.FunctionReturnTypes) = Len(manifest.FunctionNames)
        /\ \A k \in 1..Len(manifest.FunctionNames) :
              /\ manifest.FunctionReturnTypes[k] = "VOID"
                    <=> \E i \in RecordsNamed(k) : TypeGivenBy(i) = "VOID"
              /\ manifest.FunctionReturnTypes[k] = "" <=> RecordsNamed(k) = {}
              /\ manifest.FunctionReturnTypes[k] \notin {"VOID", ""}
                    => \E i \in RecordsNamed(k) :
                          manifest.FunctionReturnTypes[k] = TypeGivenBy(i)

\* C21: the return-type list is parallel to the function list; entry k is
\* empty exactly when no function-definition record has the (space-
\* normalised) name of entry k, and otherwise it is what the last such
\* record of the dump gives: VOID when that record has no qualifying return
\* parameter, the type of its first qualifying parameter otherwise.
C21_LastRecordDecides ==
    Parsed =>
        /\ Len(manifest.FunctionReturnTypes) = Len(manifest.FunctionNames)
        /\ \A k \in 1..Len(manifest.FunctionNames) :
              IF RecordsNamed(k) = {}
              THEN manifest.FunctionReturnTypes[k] = ""
              ELSE manifest.FunctionReturnTypes[k] = TypeGivenBy(Last(RecordsNamed(k)))

\* a void record of Get Ammo followed by Get_Ammo with an out-parameter,
\* Fire and Reload without record
C21_Witness ==
    /\ phase = "parsed"
    /\ manifest.FunctionNames = <<"Fire", "Get_Ammo", "Reload">>
    /\ RecordsNamed(1) = {} /\ RecordsNamed(2) = {2, 3} /\ RecordsNamed(3) = {}
    /\ TypeGivenBy(2) = "VOID" /\ TypeGivenBy(3) = "ByteProperty"
    /\ manifest.FunctionReturnTypes = <<"", "ByteProperty", "">>

-----------------------------------------------------------------------------
(* Properties of the graph and of the frame of a stub call                  *)

NodesOf(graph, class) == {i \in 1..Len(graph.Nodes) : graph.Nodes[i].Class = class}

\* whether the function of the last stub call has a return value: never with
\* the encoding VOID; otherwise as the caller says, or, when the caller gives
\* neither flag nor encoding, as the name suggests
WantsResult ==
    /\ last.Types[1] # "VOID"
    /\ \/ last.HasReturn
       \/ last.Types[1] = "" /\ BeginsWithPrefixAnyCase(last.Names[1])

\* one entry node bound to the name of the graph, at most one result node,
\* a result node with the one input pin ReturnValue, and the execution link
\* from then to execute exactly when there is a result node
WellShaped(graph) ==
    /\ Cardinality(NodesOf(graph, "K2Node_FunctionEntry")) = 1
    /\ \A i \in NodesOf(graph, "K2Node_FunctionEntry") :
          graph.Nodes[i].CustomGeneratedFunctionName = graph.Name
    /\ Cardinality(NodesOf(graph, "K2Node_FunctionResult")) <= 1
    /\ NodesOf(graph, "K2Node_FunctionEntry") \cup NodesOf(graph, "K2Node_FunctionResult")
          = 1..Len(graph.Nodes)
    /\ \A i \in NodesOf(graph, "K2Node_FunctionResult") :
          /\ Len(graph.Nodes[i].UserDefinedPins) = 1
          /\ graph.Nodes[i].UserDefinedPins[1].PinName = "ReturnValue"
          /\ graph.Nodes[i].UserDefinedPins[1].DesiredPinDirection = "EGPD_Input"
    /\ graph.Links \subseteq {<<"K2Node_FunctionEntry.then", "K2Node_FunctionResult.execute">>}
    /\ graph.Links # {} <=> NodesOf(graph, "K2Node_FunctionResult") # {}

\* C22: every graph a successful stub call produces, directly or from a
\* batch, has exactly one entry node, bound to the function name; it has
\* exactly one result node when the function has a return value and none
\* otherwise; a result node carries exactly one data pin, ReturnValue, of
\* input direction; the link from the entry's then pin to the result's
\* execute pin exists exactly when there is a result node.
C22_GraphShape ==
    /\ last.Op \in {"Stub", "Batch"} => \A j \in 1..Len(Created) : WellShaped(Created[j])
    /\ StubAdded =>
          /\ NewGraph.Name = last.Names[1]
          /\ Cardinality(NodesOf(NewGraph, "K2Node_FunctionResult"))
                = IF WantsResult THEN 1 ELSE 0

C22_Witness ==
    /\ StubAdded /\ last.Names[1] = "SetHealth" /\ last.HasReturn
    /\ last.Types[1] = "IntProperty"
    /\ Len(NewGraph.Nodes) = 2 /\ Cardinality(NewGraph.Links) = 1
    /\ NewGraph.Nodes[2].UserDefinedPins[1].PinType.Category = "PC_Int"

\* what makes the stub call for this name fail
StubRefused(name) ==
    \/ Env.NullBlueprint
    \/ name \in {"", "None"}
    \/ name \in Env.GraphCreateFails
    \/ name \in Env.SchemaFails

\* C23: a successful stub call appends exactly one function graph, named
\* after the function, to the graphs of the asset and marks the asset
\* modified; a call that fails (null asset, invalid or None name, graph
\* creation failure, schema lookup failure) returns failure, leaves the list
\* of function graphs as it was and does not mark the asset modified.
C23_EffectAndFrame ==
    [][(calls' = calls + 1 /\ last'.Op = "Stub") =>
         /\ last'.Ok <=> ~StubRefused(last'.Names[1])
         /\ last'.Ok =>
               /\ Len(FunctionGraphs') = Len(FunctionGraphs) + 1
               /\ SubSeq(FunctionGraphs', 1, Len(FunctionGraphs)) = FunctionGraphs
               /\ FunctionGraphs'[Len(FunctionGraphs')].Name = last'.Names[1]
               /\ Modified'
         /\ ~last'.Ok =>
               /\ FunctionGraphs' = FunctionGraphs
               /\ Modified' = Modified /\ ~Modified'
               /\ last'.Outcome \in {"NullBlueprint", "InvalidName",
                                     "GraphCreationFailed", "NoSchema"}]_vars

\* the engine creates no graph for Reload: the asset keeps its one graph
C23_Witness ==
    /\ last.Op = "Stub" /\ ~last.Ok /\ last.Outcome = "GraphCreationFailed"
    /\ last.Names = <<"Reload">> /\ last.HasReturn /\ last.Types = <<"IntProperty">>
    /\ FunctionGraphs = <<PlainGraph("Fire")>> /\ ~Modified

-----------------------------------------------------------------------------
(* The three batch operations side by side                                  *)

NextBatches == BatchCall \/ RepeatBatch \/ VariablesCall \/ ComponentsCall

SpecBatches == Init /\ [][NextBatches]_vars

\* the entries of names at the positions in S, in list order
PickSeq(names, S) ==
    [j \in 1..Cardinality(S) |->
        names[CHOOSE i \in S : Cardinality({h \in S : h <= i}) = j]]

\* entry i of the last batch of stubs is one that gets a graph: a proper
\* name that is not the event graph's, that nothing known has, that no
\* earlier entry has, and whose graph the engine builds
Buildable(i) ==
    /\ ToLower(last.Names[i]) \notin {"", "none"}
    /\ ~HasInside(ToLower(last.Names[i]), "executeubergraph")
    /\ \A n \in KnownNames : ToLower(n) # ToLower(last.Names[i])
    /\ \A h \in 1..(i - 1) : ToLower(last.Names[h]) # ToLower(last.Names[i])
    /\ last.Names[i] \notin Env.GraphCreateFails \cup Env.SchemaFails

AddedVariables == SubSeq(NewVariables, last.PreLen + 1, Len(NewVariables))
AddedNodes == SubSeq(SCSNodes, last.PreLen + 1, Len(SCSNodes))

\* C24: each batch operation goes through its list in order; an entry that
\* fails or is skipped (a stub that is not built, a variable of unsupported
\* type or refused by the asset, a component whose class is not found) does
\* not keep the later entries from being processed; the count returned is
\* the number of entries added, at most the length of the list.
C24_BatchContinues ==
    /\ (last.Op = "Batch" /\ ~last.Null) =>
          /\ [j \in 1..Len(Created) |-> Created[j].Name]
                = PickSeq(last.Names, {i \in 1..Len(last.Names) : Buildable(i)})
          /\ last.Count = Len(Created) /\ last.Count <= Len(last.Names)
    /\ VariablesRan =>
          /\ [j \in 1..Len(AddedVariables) |-> AddedVariables[j].VarName]
                = PickSeq(last.Names, {i \in 1..Len(last.Names) : Acceptable(i)})
          /\ last.Count = Len(AddedVariables) /\ last.Count <= Len(last.Names)
    /\ ComponentsRan =>
          /\ [j \in 1..Len(AddedNodes) |-> AddedNodes[j].Requested]
                = PickSeq(last.Names, Attachable)
          /\ last.Count = Len(AddedNodes) /\ last.Count <= Len(last.Names)

\* a variable of unsupported type, an inherited one and a good one
C24_Witness ==
    /\ VariablesRan /\ ParentVars = {"Health"} /\ last.PreLen = 1
    /\ last.Names = <<"Armor", "Health", "Speed">>
    /\ last.Types = <<"FVector", "float", "bool">>
    /\ last.Count = 1 /\ Len(NewVariables) = 2 /\ NewVariables[2].VarName = "Speed"

-----------------------------------------------------------------------------
(* Stub calls whose return type names a struct or a class, over asset       *)
(* stores that hold the definition at some of the places it is looked for   *)

MaxStored == 3       \* most definitions the asset store holds

\* what the store may hold: the struct F_Stat and the class F_Gun_C next to
\* the asset the dump names, under the content roots and as native
\* definitions; the struct Vector under a content root and as native struct
StorePool ==
    { <<"/Game/Pal/Data/F_Stat.F_Stat", "Struct">>,
      <<"/Game/Pal/Blueprint/Struct/F_Stat.F_Stat", "Struct">>,
      <<"/Game/Struct/F_Stat.F_Stat", "Struct">>,
      <<"/Script/Engine.F_Stat", "Struct">>,
      <<"/Script/Pal.F_Stat", "Struct">>,
      <<"/Game/Struct/Vector.Vector", "Struct">>,
      <<"/Script/CoreUObject.Vector", "Struct">>,
      <<"/Game/Pal/Gun/F_Gun.F_Gun_C", "Class">>,
      <<"/Game/Pal/Struct/F_Gun_C.F_Gun_C", "Class">>,
      <<"/Script/Pal.F_Gun_C", "Class">>,
      <<"/Script/CoreUObject.F_Gun_C", "Class">> }

Stores == {s \in SUBSET StorePool : Cardinality(s) <= MaxStored}

\* a return type: its encoding, and what the encoding says
Case(Enc, Position, Kind, Name, Hint) ==
    [Enc |-> Enc, Position |-> Position, Kind |-> Kind, Name |-> Name, Hint |-> Hint]

\* scalar return types that name a definition
NamedCases ==
    { Case("StructProperty|F_Stat|/Game/Pal/Data/F_Stat.0", "scalar", "Struct", "F_Stat",
           "/Game/Pal/Data/F_Stat.0"),
      Case("StructProperty|F_Stat|/Game/Pal/Data/F_Stat.1", "scalar", "Struct", "F_Stat",
           "/Game/Pal/Data/F_Stat.1"),
      Case("StructProperty|F_Stat", "scalar", "Struct", "F_Stat", ""),
      Case("StructProperty|Vector", "scalar", "Struct", "Vector", ""),
      Case("ObjectProperty|F_Gun_C|/Game/Pal/Gun/F_Gun.0", "scalar", "Object", "F_Gun_C",
           "/Game/Pal/Gun/F_Gun.0"),
      Case("ClassProperty|F_Gun_C|/Game/Pal/Gun/F_Gun.0", "scalar", "Class", "F_Gun_C",
           "/Game/Pal/Gun/F_Gun.0"),
      Case("ObjectProperty|F_Gun_C", "scalar", "Object", "F_Gun_C", "") }

\* return types without name, and names in arrays and maps
OtherCases ==
    { Case("ObjectProperty", "scalar", "Object", "", ""),
      Case("ClassProperty", "scalar", "Class", "", ""),
      Case("StructProperty", "scalar", "Struct", "", ""),
      Case("ObjectProperty|PalGhost", "scalar", "Object", "PalGhost", ""),
      Case("ClassProperty|PalGhost", "scalar", "Class", "PalGhost", ""),
      Case("StructProperty|PalGhost", "scalar", "Struct", "PalGhost", ""),
      Case("ArrayProperty|ObjectProperty", "array", "Object", "", ""),
      Case("ArrayProperty|ClassProperty", "array", "Class", "", ""),
      Case("ArrayProperty|ObjectProperty|F_Gun_C", "array", "Object", "F_Gun_C", ""),
      Case("ArrayProperty|ClassProperty|PalGhost", "array", "Class", "PalGhost", ""),
      Case("ArrayProperty|StructProperty|PalGhost", "array", "Struct", "PalGhost", ""),
      Case("MapProperty|IntProperty|ObjectProperty", "value", "Object", "", ""),
      Case("MapProperty|IntProperty|ClassProperty", "value", "Class", "", ""),
      Case("MapProperty|ObjectProperty|IntProperty", "key", "Object", "", ""),
      Case("MapProperty|ClassProperty|IntProperty", "key", "Class", "", ""),
      Case("MapProperty|ObjectProperty|IntProperty|F_Gun_C", "key", "Object", "F_Gun_C", ""),
      Case("MapProperty|ClassProperty|IntProperty|PalGhost", "key", "Class", "PalGhost", "") }

ResolveCases == NamedCases \cup OtherCases

InitResolve ==
    /\ \E s \in Stores, loaded \in BOOLEAN :
          /\ Env = [NoRefusals EXCEPT !.OnDisk = s]
          /\ InMemory = IF loaded THEN s ELSE {}
    /\ FunctionGraphs = <<>> /\ NewVariables = <<>> /\ SCSNodes = <<>>
    /\ ParentClass = <<>> /\ Modified = FALSE
    /\ last = NoCall /\ calls = 0
    /\ input = NoInput /\ enc = "" /\ dec = NoDescriptor /\ phase = "idle"
    /\ dump = NoDump /\ manifest = EmptyManifest /\ asset = NoAsset

\* a client calls AddFunctionStubToBlueprint for a function that returns a
\* struct, an object or a class
ResolveCall ==
    /\ phase = "idle" /\ last.Op = "None"
    /\ \E c \in ResolveCases : DoStub(Env.NullBlueprint, "FindTarget", TRUE, c.Enc)
    /\ UNCHANGED codecVars
    /\ UNCHANGED dumpVars

NextResolve == ResolveCall

SpecResolve == InitResolve /\ [][NextResolve]_vars

-----------------------------------------------------------------------------
(* Properties of symbol resolution                                          *)

\* what the encoding of the last stub call says
TheCase == CHOOSE c \in ResolveCases : c.Enc = last.Types[1]

Resolving == last.Op = "Stub" /\ last.Ok /\ last.Types[1] \in {c.Enc : c \in ResolveCases}

\* the definition the return pin is typed with: for a map key that of the
\* key, NoObject when the pin has none
PinDefinition ==
    IF TheCase.Position = "key" THEN ReturnPin.KeyObject ELSE ReturnPin.Object

\* the kind of definition the asset store is asked for
StoreKind(kind) == IF kind = "Struct" THEN "Struct" ELSE "Class"

Stored(path, kind) == <<path, StoreKind(kind)>> \in Env.OnDisk \cup InMemory

RECURSIVE LastDot(_, _)
LastDot(s, i) == IF i = 0 THEN 0 ELSE IF CharAt(s, i) = "." THEN i ELSE LastDot(s, i - 1)

\* a path without its numeric suffix: /Game/X/Bullet.0 and /Game/X/Bullet.1
\* both give /Game/X/Bullet
WithoutNumericSuffix(path) ==
    LET d == LastDot(path, Len(path)) IN
    IF d > 0 /\ d < Len(path)
         /\ \A i \in (d + 1)..Len(path) :
               CharAt(path, i) \in {"0", "1", "2", "3", "4", "5", "6", "7", "8", "9"}
    THEN SubSeq(path, 1, d - 1)
    ELSE path

FollowsConvention(name) ==
    \/ Len(name) >= 2 /\ ToLower(SubSeq(name, 1, 2)) = "f_"
    \/ HasInside(ToLower(name), "userdefined")

ContentRoots == <<"/Game/Pal/DataTable/Struct/", "/Game/Pal/Blueprint/Struct/",
                  "/Game/Pal/Struct/", "/Game/Struct/">>

NativeNamespaces(kind) ==
    IF kind = "Struct"
    THEN <<"/Script/CoreUObject.", "/Script/Engine.", "/Script/Pal.">>
    ELSE <<"/Script/Pal.", "/Script/Engine.", "/Script/Niagara.", "/Script/CoreUObject.">>

\* the candidates of a named scalar return type in the order stated: the
\* hint, the content roots for a name of the user-defined convention, the
\* native namespaces
CandidatesAsStated(c) ==
    (IF c.Hint = "" THEN <<>> ELSE <<WithoutNumericSuffix(c.Hint) \o "." \o c.Name>>)
    \o (IF FollowsConvention(c.Name)
        THEN [i \in 1..Len(ContentRoots) |-> ContentRoots[i] \o c.Name \o "." \o c.Name]
        ELSE <<>>)
    \o [i \in 1..Len(NativeNamespaces(c.Kind)) |-> NativeNamespaces(c.Kind)[i] \o c.Name]

FirstStored(candidates, kind) ==
    IF \E i \in 1..Len(candidates) : Stored(candidates[i], kind)
    THEN candidates[CHOOSE i \in 1..Len(candidates) :
                       /\ Stored(candidates[i], kind)
                       /\ \A h \in 1..(i - 1) : ~Stored(candidates[h], kind)]
    ELSE NoObject

\* C25 as stated: for a named struct, object or class return type the
\* candidates are tried in the order hint (numeric suffix stripped), content
\* roots (for names of the user-defined convention), native namespaces, and
\* the pin is typed with the first candidate the asset store holds.
C25_AsStated ==
    (Resolving /\ TheCase \in NamedCases /\ FirstStored(CandidatesAsStated(TheCase), TheCase.Kind) # NoObject)
        => PinDefinition = FirstStored(CandidatesAsStated(TheCase), TheCase.Kind)

GenericOf(kind) == IF kind = "Object" THEN GenericObject ELSE GenericClass

\* C26 as stated: the stub is created whatever the asset store holds; an
\* object or class return type, scalar, array element, map key or map value,
\* named or not, that resolves to no definition of the store gets the
\* generic object class or the generic class of classes, never no class at
\* all; an unresolved struct is a plain struct pin.
C26_AsStated ==
    /\ (last.Op = "Stub" /\ ~last.Null) => last.Ok
    /\ Resolving =>
          IF TheCase.Kind = "Struct"
          THEN (IF TheCase.Position = "key" THEN ReturnPin.KeyCategory ELSE ReturnPin.Category)
                   = "PC_Struct"
          ELSE /\ PinDefinition # NoObject
               /\ ~Stored(PinDefinition, TheCase.Kind) => PinDefinition = GenericOf(TheCase.Kind)

-----------------------------------------------------------------------------
(* Properties of the modified mark                                          *)

\* C27: after a batch call (stubs, components or variables) that added at
\* least one item the asset is marked modified; a call that adds nothing
\* (null asset, every item skipped or failed) leaves the function graphs,
\* the components and the variables of the asset as they were.
C27_ModifiedAfterBatch ==
    [][(calls' = calls + 1 /\ last'.Op \in {"Batch", "Variables", "Components"}) =>
         /\ ( \/ last'.Count > 0
              \/ FunctionGraphs' # FunctionGraphs
              \/ NewVariables' # NewVariables
              \/ SCSNodes' # SCSNodes ) => Modified'
         /\ last'.Count = 0 =>
               /\ FunctionGraphs' = FunctionGraphs
               /\ NewVariables' = NewVariables
               /\ SCSNodes' = SCSNodes
               /\ Modified' = Modified]_vars

\* two variables added to an asset that was not marked before
C27_Witness ==
    /\ VariablesRan /\ ~last.PreModified /\ last.Names = <<"Ammo", "Speed">>
    /\ last.Count = 2 /\ Len(NewVariables) = last.PreLen + 2 /\ Modified

-----------------------------------------------------------------------------
(* Properties of the paired lists of a manifest                             *)

\* the class name a component property declares: Class'SceneComponent'
\* stands for SceneComponent
DeclaredClass(p) ==
    LET n == p.PropertyClass[1].ObjectName
        a == IF BeginsWith(ToLower(n), "class'") THEN SubSeq(n, 7, Len(n)) ELSE n
    IN IF Len(a) > 0 /\ CharAt(a, Len(a)) = "'" THEN SubSeq(a, 1, Len(a) - 1) ELSE a

\* the first declared property of a kind with the name given
FirstNamed(name, OfKind(_)) ==
    DeclaredAt(CHOOSE i \in DeclaredRecords :
                  /\ OfKind(DeclaredAt(i)) /\ ToLower(DeclaredAt(i).Name) = ToLower(name)
                  /\ \A h \in DeclaredRecords :
                        (h < i /\ OfKind(DeclaredAt(h)))
                            => ToLower(DeclaredAt(h).Name) # ToLower(name))

\* C28 as stated: the component names and the component classes of a
\* manifest have the same length, entry i of the classes is the class
\* declared for the component named by entry i of the names, two components
\* of one class included, and an asset created from the dump is handed every
\* extracted component.
C28_AsStated ==
    (Parsed /\ HasClassRecord) =>
        /\ Len(manifest.ComponentClasses) = Len(manifest.ComponentNames)
        /\ \A k \in 1..Len(manifest.ComponentNames) :
              manifest.ComponentClasses[k]
                  = DeclaredClass(FirstNamed(manifest.ComponentNames[k], ComponentAnyCase))
        /\ (phase = "created" /\ asset.Returned) =>
              [j \in 1..Len(SCSNodes) |-> SCSNodes[j].Requested] = manifest.ComponentNames

StatedVarTypes ==
    [boolproperty |-> "bool", intproperty |-> "int32", floatproperty |-> "float",
     doubleproperty |-> "double", byteproperty |-> "uint8", strproperty |-> "FString",
     nameproperty |-> "FName", textproperty |-> "FText"]

\* C29 as stated: the variable names and the variable types of a manifest
\* have the same length, also when the class declares a variable name more
\* than once; entry i of the types is the type of the first declaration of
\* the variable named by entry i of the names; an asset created from the
\* dump is handed every extracted variable.
C29_AsStated ==
    (Parsed /\ HasClassRecord) =>
        /\ Len(manifest.VariableTypes) = Len(manifest.VariableNames)
        /\ \A k \in 1..Len(manifest.VariableNames) :
              manifest.VariableTypes[k]
                  = StatedVarTypes[ToLower(FirstNamed(manifest.VariableNames[k],
                                                      VariableAnyCase).Type)]
        /\ (phase = "created" /\ asset.Returned) =>
              [j \in 1..Len(NewVariables) |-> NewVariables[j].VarName] = manifest.VariableNames

-----------------------------------------------------------------------------
(* Sequences of batch calls on one asset                                    *)

MaxCalls == 2        \* most batch calls made on the asset

\* the lists of the calls: a name twice in one list, twice up to letter
\* case, the names of an own and of an inherited function, the event graph
SequenceLists ==
    { <<>>,
      << <<"Reload", "VOID">>, <<"Reload", "IntProperty">> >>,
      << <<"GetHealth", "">>, <<"gethealth", "VOID">> >>,
      << <<"TakeDamage", "">>, <<"Fire", "IntProperty">> >>,
      << <<"fire", "VOID">> >>,
      << <<"Reload", "VOID">>, <<"GetHealth", "">>, <<"Fire", "VOID">> >>,
      << <<"ExecuteUbergraph_BP", "IntProperty">>, <<"Jump", "">> >>,
      << <<"Jump", "VOID">>, <<"Reload", "VOID">>, <<"Jump", "IntProperty">> >> }

\* an asset that overrides a function of its parent class from the start
Overriding ==
    [Graphs |-> <<PlainGraph("TakeDamage"), PlainGraph("Fire")>>, Variables |-> <<>>,
     Nodes |-> <<>>, Parent |-> <<BaseParent>>, Env |-> NoRefusals]

InitSequence ==
    /\ \E sc \in Scenarios \cup {Overriding} :
          /\ FunctionGraphs = sc.Graphs
          /\ NewVariables = sc.Variables
          /\ SCSNodes = sc.Nodes
          /\ ParentClass = sc.Parent
          /\ Env = sc.Env
    /\ Modified = FALSE /\ InMemory = {} /\ last = NoCall /\ calls = 0
    /\ input = NoInput /\ enc = "" /\ dec = NoDescriptor /\ phase = "idle"
    /\ dump = NoDump /\ manifest = EmptyManifest /\ asset = NoAsset

\* a client calls AddMultipleFunctionStubsToBlueprint once more
SequenceCall ==
    /\ phase = "idle" /\ calls < MaxCalls
    /\ \E items \in SequenceLists :
          DoBatch(Env.NullBlueprint, Column(items, 1), Column(items, 2), 0)
    /\ UNCHANGED codecVars
    /\ UNCHANGED dumpVars

NextSequence == SequenceCall

SpecSequence == InitSequence /\ [][NextSequence]_vars

-----------------------------------------------------------------------------
(* Properties of sequences of batch calls                                   *)

SameName(a, b) == ToLower(a) = ToLower(b)

DistinctNames(graphs) ==
    \A j, k \in 1..Len(graphs) : j # k => ~SameName(graphs[j].Name, graphs[k].Name)

\* C30: over any sequence of batch calls on an asset whose function graphs
\* start with pairwise distinct names, the function graphs have pairwise
\* distinct names in every state; a call keeps the graphs it found and adds
\* none that has the name of a function of the parent class, so that such a
\* graph is one the asset had from the start; a name that occurs more than
\* once in the list of a call gets at most one graph, that of its first
\* occurrence (of the first one the engine does not refuse, when it refuses
\* to create a graph); the later occurrences are skipped.
C30_DistinctNames ==
    /\ []DistinctNames(FunctionGraphs)
    /\ [][(calls' = calls + 1) =>
            /\ Len(FunctionGraphs') >= Len(FunctionGraphs)
            /\ SubSeq(FunctionGraphs', 1, Len(FunctionGraphs)) = FunctionGraphs
            /\ \A j \in (Len(FunctionGraphs) + 1)..Len(FunctionGraphs') :
                  /\ \A f \in ParentFuncs : ~SameName(f, FunctionGraphs'[j].Name)
                  /\ \E i \in 1..Len(last'.Names) :
                        /\ last'.Names[i] = FunctionGraphs'[j].Name
                        /\ \A h \in 1..(i - 1) :
                              SameName(last'.Names[h], last'.Names[i])
                                  => StubRefused(last'.Names[h])
                        /\ HasResultNode(FunctionGraphs'[j])
                              <=> ( /\ last'.Types[i] # "VOID"
                                    /\ \/ last'.Types[i] # ""
                                       \/ BeginsWithPrefixAnyCase(last'.Names[i]) )
            /\ \A i \in 1..Len(last'.Names) :
                  Cardinality({j \in 1..Len(FunctionGraphs') :
                                  SameName(FunctionGraphs'[j].Name, last'.Names[i])}) <= 1]_vars

\* the second call lists Jump twice, with VOID first: one graph, no result
C30_Witness ==
    /\ calls = 2 /\ last.Op = "Batch" /\ ParentFuncs = {"TakeDamage"}
    /\ FunctionGraphs[1].Name = "TakeDamage"
    /\ last.Names = <<"Jump", "Reload", "Jump">> /\ last.Count = 2
    /\ Len(Created) = 2 /\ Created[1].Name = "Jump" /\ ~HasResultNode(Created[1])
    /\ Created[2].Name = "Reload"

=============================================================================
